---- MODULE Spec2Model ----
(***************************************************************************)
(* State-machine model of project-chat's server core:                      *)
(*   - MemorySessionStore            (src/server/session-store.ts)         *)
(*   - createMessagesHandler         (src/server/messages-handler.ts)      *)
(*   - runToolLoop                   (src/server/tool-loop.ts)             *)
(* Each handleMessage call is an async generator.  One action of the model *)
(* is the code the generator runs between two suspension points (a yield   *)
(* or an await); a request that is suspended at a yield can be abandoned   *)
(* by its consumer (generator.return()).  Session records are objects on a *)
(* heap: the store's Map and a request's local `session` hold references,  *)
(* exactly as in the JavaScript.                                           *)
(***************************************************************************)
EXTENDS Integers, Sequences, FiniteSets, TLC

(***************************************************************************)
(* Bounds of the model                                                     *)
(***************************************************************************)
NumSlots == 2        \* handleMessage calls that can be in flight at once
NumSessions == 2     \* distinct session ids
MaxTurnsCfg == 2     \* largest configured maxToolTurns
MaxItems == 2        \* Spec: items one model stream delivers before it ends
FairItems == 1       \* SpecFair: items one model stream delivers
SeqRequests == 2     \* SpecSeq: handleMessage calls in one behaviour
SeqItems == 1        \* SpecSeq: items one model stream delivers
SeqTime == 2         \* SpecSeq: clock ticks in one behaviour
ConcRequests == 2    \* SpecConc: handleMessage calls in one behaviour
ConcItems == 1       \* SpecConc: items one model stream delivers
SeqTurns == 2        \* SpecSeq: configured maxToolTurns
SeqHistory == 3      \* SpecSeq: configured maxHistoryMessages
ConcTurns == 1       \* SpecConc: configured maxToolTurns
ConcHistory == 6     \* SpecConc: configured maxHistoryMessages
StoreTime == 4       \* SpecStore: clock ticks in one behaviour
NumSdkIds == 1       \* SDK session ids an init message may carry
MixRequests == 2     \* SpecMixed: handleMessage calls in one behaviour
MixItems == 1        \* SpecMixed: stream events per model call of the messages handler
MixAgentItems == 2   \* SpecMixed: messages per SDK stream of the agent handler
MixTurns == 1        \* SpecMixed: configured maxToolTurns
MixHistory == 3      \* SpecMixed: configured maxHistoryMessages
MaxKeyLen == 2       \* SpecNames: characters in a server key
MaxToolLen == 2      \* SpecNames: characters in a tool name
MaxRegistered == 2   \* SpecNames: registered (server key, tool name) pairs
MaxFiles == 21       \* SpecServer: indexed files
NumMessages == 1     \* SpecServer: distinct non-empty exception messages
MaxTextLen == 2      \* SpecWire: characters in a payload string
MaxEvents == 2       \* SpecChunks: events in one stream
MaxChunks == 3       \* SpecChunks: chunks the stream is read in
MaxSearchFiles == 3  \* SpecSearch: files in the list searched
MaxContentLen == 3   \* SpecSearch: characters in a file's content
MaxQueryLen == 3     \* SpecSearch: characters in a query
MaxDepth == 2        \* SpecIndex: directories on a path below the root
MaxDiskFiles == 2    \* SpecIndex: files on disk
MaxReindexFiles == 2 \* SpecReindex: files on disk
MaxRuns == 3         \* SpecReindex: index builds (the first at construction)
MaxCalls == 2        \* SpecSearch: calls of searchIndex on one input
AdapterItems == 2    \* SpecAdapter: items one model stream delivers
AdapterTurns == 2    \* SpecAdapter: largest configured maxToolTurns
HistRequests == 2    \* SpecHist: handleMessage calls in one behaviour
HistItems == 1       \* SpecHist: items one model stream delivers
HistTurns == 2       \* SpecHist: configured maxToolTurns
MaxHistCfg == 2      \* SpecHist: largest configured maxHistoryMessages
MaxSends == 2        \* SpecClient: calls of send in one behaviour
MaxReads == 2        \* SpecClient: events one response stream delivers

(***************************************************************************)
(* Configuration values used by the model (scaled-down handler options)    *)
(***************************************************************************)
PathBonus == 5               \* indexer.ts 94: score += 5
DefaultMaxResults == 5       \* indexer.ts 82: maxResults = 5
maxFileSize == 100000        \* server.ts 502: maxFileSize = 100_000
ListLimit == 20      \* read_file: files.slice(0, 20)
maxInputLength == 1          \* MessagesHandlerConfig.maxInputLength
maxAgeMs == 1                \* MemorySessionStore opts.maxAgeMs
maxHistoryMessages == 4      \* MessagesHandlerConfig.maxHistoryMessages

Slots == 1..NumSlots
SessionIds == 1..NumSessions
ObjIds == 1..(NumSessions + NumSlots)
NoObj == 0
NoId == 0

VARIABLES
    now,        \* Date.now()
    sessions,   \* MemorySessionStore.sessions: id -> object reference (NoObj: no entry)
    heap,       \* SessionData objects by reference
    usedIds,    \* session ids that have ever been used (randomUUID never returns one)
    reqCount,   \* number of handleMessage calls so far
    cfg,        \* options the handler was created with
    rq,         \* per slot: the generator's locals, its position and what it emitted
    lastOp,     \* the last direct call of the store API and its result
    registry,   \* config.servers: the registered (server key, tool name) pairs
    dispatched, \* the last tool call the loop resolved to a server and a tool name
    files,      \* createProjectChatServer: the indexed files
    customTools,\* createProjectChatServer: the names of config.tools
    call,       \* the last callTool of the server and what it returned
    sent,       \* SSE: the events the server serialized, in order
    chunks,     \* SSE: the chunks reader.read() has still to deliver
    buffer,     \* parseSSEStream: the unfinished last line
    fired,      \* parseSSEStream: the events passed to onEvent, in order
    readerDone, \* parseSSEStream: onDone was called
    search,     \* the last searchIndex call: its arguments, the scores and the result
    disk,       \* the directory trees the servers index: the entries on disk
    kind,       \* which server was created: "chat" (server.ts) or "context" (part_013)
    captured,   \* the array buildTools(files) was handed when the server was created
    job,        \* the synchronous call on the stack (run to completion) and its position
    asked,      \* the last query a built-in tool answered and the list it read
    ui          \* useAgentChat: the hook's React state, localStorage and the stream it reads

handlerVars == <<now, sessions, heap, usedIds, reqCount, cfg, rq, lastOp>>
namesVars == <<registry, dispatched>>
serverVars == <<files, customTools, call>>
sseVars == <<sent, chunks, buffer, fired, readerDone>>
indexVars == <<search, disk, kind, captured, job, asked>>
clientVars == <<ui>>

\* what the handlers' generators never write
lib == <<namesVars, serverVars, sseVars, indexVars, clientVars>>

vars == <<now, sessions, heap, usedIds, reqCount, cfg, rq, lastOp, registry, dispatched,
          files, customTools, call, sent, chunks, buffer, fired, readerDone,
          search, disk, kind, captured, job, asked, ui>>

(***************************************************************************)
(* Sequence helpers                                                        *)
(***************************************************************************)
Last(s) == s[Len(s)]

\* Array.prototype.slice(start) for an integer start (negative counts from the end)
Slice(s, start) ==
    LET n == Len(s)
        from == IF start < 0 THEN (IF n + start < 0 THEN 0 ELSE n + start)
                ELSE (IF start > n THEN n ELSE start)
    IN  SubSeq(s, from + 1, n)


(***************************************************************************)
(* SessionData and the heap                                                *)
(***************************************************************************)
\* sdkSessionId of a session the agent handler never wrote (undefined)
NoSdk == 0

NullData == [history |-> <<>>, sdkSessionId |-> NoSdk, createdAt |-> -1, lastActiveAt |-> -1,
             messageCount |-> -1]

Referenced(ss, q) ==
    {ss[i] : i \in SessionIds} \cup {q[r].session : r \in Slots}

\* `new` object: the least reference nothing holds
Alloc(ss, q) == CHOOSE o \in ObjIds : o \notin Referenced(ss, q)
                    /\ \A p \in ObjIds : p \notin Referenced(ss, q) => o <= p

\* objects nothing refers to any more are collected
Collect(hp, ss, q) == [o \in ObjIds |-> IF o \in Referenced(ss, q) THEN hp[o] ELSE NullData]

(***************************************************************************)
(* MemorySessionStore                                                      *)
(***************************************************************************)
ExpiredAtLimit(data, t) == t - data.lastActiveAt >= maxAgeMs

\* the expiry test of get
Expired(data, t) == t - data.lastActiveAt > maxAgeMs

\* get(id): the returned reference (NoObj for null)
StoreGetResult(ss, hp, id, t) ==
    IF ss[id] = NoObj THEN NoObj
    ELSE IF Expired(hp[ss[id]], t) THEN NoObj
    ELSE ss[id]

\* get(id): the Map after the call (an expired entry is deleted)
StoreGetMap(ss, hp, id, t) ==
    IF ss[id] # NoObj /\ Expired(hp[ss[id]], t) THEN [ss EXCEPT ![id] = NoObj] ELSE ss

StoreSetMapFirstKey(ss, id, obj) == [ss EXCEPT ![1] = obj]

\* set(id, data): the Map after the call
StoreSetMap(ss, id, obj) == [ss EXCEPT ![id] = obj]

\* delete(id): the Map after the call
StoreDeleteMap(ss, id) == [ss EXCEPT ![id] = NoObj]

(***************************************************************************)
(* ChatRequest, ChatEvent, MessageParam                                    *)
(***************************************************************************)
\* req.message: a string of some length, or a value that is not a string
Messages == [type : {"string"}, len : 0..(maxInputLength + 1)] \cup {[type |-> "other", len |-> 0]}

InputTooLongAtLimit(m) == m.len >= maxInputLength

\* the two validation tests of handleMessage
InvalidInput(m) == m.len = 0 \/ m.type # "string"
InputTooLong(m) == m.len > maxInputLength

Ev(e, d) == [event |-> e, data |-> d]
SessionEvent(sid) == Ev("session", [sessionId |-> sid])
DoneEvent(sid) == Ev("done", [sessionId |-> sid])
ErrorEvent(msg, code) == Ev("error", [message |-> msg, code |-> code])
ContentDeltaSameText(k) == Ev("content_delta", [text |-> <<0, 0>>])
ContentDelta(k) == Ev("content_delta", [text |-> k])
ToolUseStartStaleId(b) == Ev("tool_use_start", [id |-> <<0, 0>>, tool |-> b.name])
ToolUseStart(b) == Ev("tool_use_start", [id |-> b.id, tool |-> b.name])
ToolUseEndAsStart(b) == Ev("tool_use_start", [id |-> b.id, tool |-> b.name])
ToolUseEnd(b) == Ev("tool_use_end", [id |-> b.id, tool |-> b.name])
MessageEnd(n, c) == Ev("message_end", [id |-> <<n, c>>])

\* { role: 'user', content: userContent } of request n
UserMessage(n) == [role |-> "user", req |-> n, kind |-> "text", blocks |-> <<>>]
\* { role: 'assistant', content: finalMessage.content }
AssistantMessage(n, content) == [role |-> "assistant", req |-> n, kind |-> "content", blocks |-> content]
\* { role: 'user', content: toolResults }
ToolResultMessage(n, results) == [role |-> "user", req |-> n, kind |-> "tool_result", blocks |-> results]

(***************************************************************************)
(* Tool names: strings as sequences of characters                          *)
(***************************************************************************)
ServerKeys == {<<"d">>}                      \* keys of config.servers
ToolNames == {<<"d", "_", "_", "s">>,        \* "d__s": a tool of server "d"
              <<"x", "_", "_", "s">>}        \* "x__s": no such server

\* String.prototype.indexOf("__"), 0-based, -1 when absent
IndexOfSep(name) ==
    LET hits == {i \in 1..(Len(name) - 1) : name[i] = "_" /\ name[i + 1] = "_"}
    IN  IF hits = {} THEN -1 ELSE (CHOOSE i \in hits : \A j \in hits : i <= j) - 1

parseToolName(name) ==
    LET idx == IndexOfSep(name)
    IN  IF idx = -1 THEN <<<<>>, name>>
        ELSE <<SubSeq(name, 1, idx), SubSeq(name, idx + 3, Len(name))>>

(***************************************************************************)
(* A handleMessage call (one slot)                                         *)
(***************************************************************************)
NoReq == [message |-> [type |-> "other", len |-> 0], sessionId |-> NoId]

IdleReq == [pc |-> "idle", handler |-> "messages", req |-> NoReq, n |-> 0, sid |-> NoId, session |-> NoObj,
            messages |-> <<>>, events |-> <<>>, turnCount |-> 0, calls |-> 0,
            items |-> 0, content |-> <<>>, stop |-> "none", pending |-> <<>>,
            toolResults |-> <<>>, err |-> "none", log |-> <<>>, ops |-> <<>>,
            found |-> NullData]

\* positions at which the generator is suspended at a yield
YieldPcs == {"yield_invalid", "yield_session", "yield_item", "yield_message_end",
             "yield_tool_end", "yield_done", "yield_error"}
\* positions at which the generator has completed
EndPcs == {"finished", "thrown", "returned"}

Put(r, rec) == rq' = [rq EXCEPT ![r] = rec]
End(rec, at) == [rec EXCEPT !.pc = at, !.session = NoObj]
Yield(rec, e, at) == [rec EXCEPT !.events = Append(@, e), !.pc = at]
Env(rec, what) == [rec EXCEPT !.log = Append(@, what)]

\* req.sessionId ?? crypto.randomUUID(): a fresh id is one never used before
FreshIds == SessionIds \ usedIds
ClientSessionIdsAlwaysFresh(s) ==
    IF FreshIds = {} THEN {}
    ELSE {CHOOSE i \in FreshIds : \A j \in FreshIds : i <= j}

ClientSessionIds(s) ==
    IF s # NoId THEN {s}
    ELSE IF FreshIds = {} THEN {}
    ELSE {CHOOSE i \in FreshIds : \A j \in FreshIds : i <= j}

\* the fields of the object sessionStore.get resolved to, as they were at that moment
\* (NullData for null)
Found(o) == IF o = NoObj THEN NullData ELSE heap[o]

\* messages-handler.ts 89-102: the first next(): validation, then sessionStore.get
HandleMessage(r, maxRequests) ==
    /\ rq[r].pc \in EndPcs \cup {"idle"}
    /\ reqCount < maxRequests
    /\ \E m \in Messages, s \in SessionIds \cup {NoId} :
         LET start == [IdleReq EXCEPT !.req = [message |-> m, sessionId |-> s],
                                      !.n = reqCount + 1]
         IN  IF InvalidInput(m)
             THEN /\ Put(r, Yield(start, ErrorEvent("Message is required", "INVALID_INPUT"), "yield_invalid"))
                  /\ UNCHANGED <<sessions, usedIds>>
             ELSE IF InputTooLong(m)
             THEN /\ Put(r, Yield(start, ErrorEvent("Message exceeds maxInputLength characters", "INPUT_TOO_LONG"), "yield_invalid"))
                  /\ UNCHANGED <<sessions, usedIds>>
             ELSE \E sid \in ClientSessionIds(s) :
                  /\ Put(r, [start EXCEPT !.sid = sid,
                                          !.session = StoreGetResult(sessions, heap, sid, now),
                                          !.found = Found(StoreGetResult(sessions, heap, sid, now)),
                                          !.ops = Append(@, <<"get", sid>>),
                                          !.pc = "await_get"])
                  /\ sessions' = StoreGetMap(sessions, heap, sid, now)
                  /\ usedIds' = usedIds \cup {sid}
    /\ reqCount' = reqCount + 1
    /\ heap' = Collect(heap, sessions', rq')
    /\ UNCHANGED <<now, cfg, lib, lastOp>>

\* messages-handler.ts 104-117: new session object, lastActiveAt, messageCount++,
\* onMessageStart, yield session
AfterGet(r) ==
    /\ rq[r].pc = "await_get"
    /\ LET fresh == rq[r].session = NoObj
           o == IF fresh THEN Alloc(sessions, rq) ELSE rq[r].session
           data == IF fresh
                   THEN [history |-> <<>>, sdkSessionId |-> NoSdk, createdAt |-> now,
                         lastActiveAt |-> now, messageCount |-> 0]
                   ELSE heap[o]
           rec == [rq[r] EXCEPT !.session = o]
           hp == [heap EXCEPT ![o] = [data EXCEPT !.lastActiveAt = now, !.messageCount = @ + 1]]
       IN  /\ IF "onMessageStart" \in cfg.throwing
              THEN Put(r, End(Env(rec, "onMessageStart throws"), "thrown"))
              ELSE Put(r, Yield(rec, SessionEvent(rq[r].sid), "yield_session"))
           /\ heap' = Collect(hp, sessions, rq')
    /\ UNCHANGED <<now, sessions, usedIds, reqCount, cfg, lib, lastOp>>

StartTurnNoHistory(r) ==
    /\ rq[r].pc = "yield_session"
    /\ Put(r, [rq[r] EXCEPT !.messages = <<UserMessage(rq[r].n)>>,
                            !.turnCount = 0,
                            !.pc = "loop_top"])
    /\ UNCHANGED <<now, sessions, heap, usedIds, reqCount, cfg, lib, lastOp>>

StartTurnInPlace(r) ==
    /\ rq[r].pc = "yield_session"
    /\ Put(r, [rq[r] EXCEPT !.messages = heap[rq[r].session].history \o <<UserMessage(rq[r].n)>>,
                            !.turnCount = 0,
                            !.pc = "loop_top"])
    /\ heap' = [heap EXCEPT ![rq[r].session].history = Append(@, UserMessage(rq[r].n))]
    /\ UNCHANGED <<now, sessions, usedIds, reqCount, cfg, lib, lastOp>>

\* messages-handler.ts 119-145: messages = [...history, user message]; runToolLoop is entered
StartTurn(r) ==
    /\ rq[r].pc = "yield_session"
    /\ Put(r, [rq[r] EXCEPT !.messages = heap[rq[r].session].history \o <<UserMessage(rq[r].n)>>,
                            !.turnCount = 0,
                            !.pc = "loop_top"])
    /\ UNCHANGED <<now, sessions, heap, usedIds, reqCount, cfg, lib, lastOp>>

LoopGuardOffByOne(turnCount, maxToolTurns) == turnCount <= maxToolTurns
LoopGuardAlways(turnCount, maxToolTurns) == turnCount < maxToolTurns \/ TRUE

\* tool-loop.ts 40: the loop condition
LoopGuard(turnCount, maxToolTurns) == turnCount < maxToolTurns

\* tool-loop.ts 40-50: loop test, turnCount++, client.messages.stream(...)
\* (no run with more than MaxTurnsCfg + 1 model calls is explored)
LoopTop(r) ==
    /\ rq[r].pc = "loop_top"
    /\ rq[r].calls <= MaxTurnsCfg
    /\ IF LoopGuard(rq[r].turnCount, cfg.maxToolTurns)
       THEN LET rec == [rq[r] EXCEPT !.turnCount = @ + 1, !.calls = @ + 1,
                                     !.items = 0, !.content = <<>>]
            IN  \/ Put(r, [rec EXCEPT !.pc = "streaming"])
                \/ Put(r, [Env(rec, "stream throws") EXCEPT !.pc = "catch", !.err = "model_error"])
       ELSE Put(r, [rq[r] EXCEPT !.pc = "save"])
    /\ UNCHANGED <<now, sessions, heap, usedIds, reqCount, cfg, lib, lastOp>>

\* tool-loop.ts 56-75: one iteration of `for await (const event of stream)`
StreamItem(r, maxItems) ==
    /\ rq[r].pc \in {"streaming", "yield_item"}
    /\ LET id == <<rq[r].calls, rq[r].items + 1>>
           rec == [rq[r] EXCEPT !.items = @ + 1]
       IN  \/ /\ rq[r].items < maxItems
              /\ \/ Put(r, Yield([Env(rec, "text_delta") EXCEPT
                                     !.content = Append(@, [type |-> "text", id |-> id])],
                                 ContentDelta(id), "yield_item"))
                 \/ \E nm \in ToolNames :
                      LET b == [type |-> "tool_use", id |-> id, name |-> nm]
                      IN  Put(r, Yield([Env(rec, "tool_use block") EXCEPT !.content = Append(@, b)],
                                       ToolUseStart(b), "yield_item"))
                 \/ Put(r, [Env(rec, "other event") EXCEPT !.pc = "streaming"])
           \/ Put(r, [Env(rq[r], "stream ends") EXCEPT !.pc = "final"])
           \/ Put(r, [Env(rq[r], "stream throws") EXCEPT !.pc = "catch", !.err = "model_error"])
    /\ UNCHANGED <<now, sessions, heap, usedIds, reqCount, cfg, lib, lastOp>>

StopReasons == {"end_turn", "max_tokens", "tool_use"}

\* tool-loop.ts 77-84: finalMessage, messages.push(assistant), yield message_end
FinalMessage(r) ==
    /\ rq[r].pc = "final"
    /\ \/ \E sr \in StopReasons :
            Put(r, Yield([Env(rq[r], sr) EXCEPT
                             !.messages = Append(@, AssistantMessage(rq[r].n, rq[r].content)),
                             !.stop = sr],
                         MessageEnd(rq[r].n, rq[r].calls), "yield_message_end"))
       \/ Put(r, [Env(rq[r], "finalMessage throws") EXCEPT !.pc = "catch", !.err = "model_error"])
    /\ UNCHANGED <<now, sessions, heap, usedIds, reqCount, cfg, lib, lastOp>>

\* tool-loop.ts 87: the stop reasons that end the loop
IsNaturalEnd(sr) == sr = "end_turn" \/ sr = "max_tokens"

ToolUseBlocksLastFirst(content) ==
    LET blocks == SelectSeq(content, LAMBDA b : b.type = "tool_use")
    IN  [i \in 1..Len(blocks) |-> blocks[Len(blocks) + 1 - i]]

\* tool-loop.ts 94-95: the blocks of finalMessage.content the for loop executes
ToolUseBlocks(content) == SelectSeq(content, LAMBDA b : b.type = "tool_use")

\* tool-loop.ts 86-92: break on a natural end, else start executing the tool calls
AfterMessageEnd(r) ==
    /\ rq[r].pc = "yield_message_end"
    /\ IF IsNaturalEnd(rq[r].stop)
       THEN Put(r, [rq[r] EXCEPT !.pc = "save"])
       ELSE Put(r, [rq[r] EXCEPT !.pending = ToolUseBlocks(rq[r].content),
                                 !.toolResults = <<>>,
                                 !.pc = "tools"])
    /\ UNCHANGED <<now, sessions, heap, usedIds, reqCount, cfg, lib, lastOp>>

ToolResultUnflagged(b, isError) == [type |-> "tool_result", tool_use_id |-> b.id, is_error |-> FALSE]

\* tool-loop.ts 110-115: the tool_result block of a call
ToolResult(b, isError) == [type |-> "tool_result", tool_use_id |-> b.id, is_error |-> isError]

NoToolsCalledNever(toolResults) == FALSE

\* tool-loop.ts 119: toolResults.length === 0
NoToolsCalled(toolResults) == toolResults = <<>>

\* tool-loop.ts 93-125: the next tool call (callTool, yield tool_use_end), or the end
\* of the for loop (break when nothing was called, else push the results and loop)
ToolStep(r) ==
    /\ rq[r].pc \in {"tools", "yield_tool_end"}
    /\ IF rq[r].pending # <<>>
       THEN LET b == Head(rq[r].pending)
                serverName == parseToolName(b.name)[1]
                rec == [rq[r] EXCEPT !.pending = Tail(@)]
                Done(what, isError) ==
                    Put(r, Yield([Env(rec, what) EXCEPT
                                     !.toolResults = Append(@, ToolResult(b, isError))],
                                 ToolUseEnd(b), "yield_tool_end"))
            IN  IF serverName \in ServerKeys
                THEN Done("callTool ok", FALSE) \/ Done("callTool isError", TRUE)
                ELSE Done("unknown server", TRUE)
       ELSE IF NoToolsCalled(rq[r].toolResults)
       THEN Put(r, [rq[r] EXCEPT !.pc = "save"])
       ELSE Put(r, [rq[r] EXCEPT !.messages = Append(@, ToolResultMessage(rq[r].n, rq[r].toolResults)),
                                 !.pc = "loop_top"])
    /\ UNCHANGED <<now, sessions, heap, usedIds, reqCount, cfg, lib, lastOp>>

TrimHistoryKeepNone(messages, maxHist) == <<>>

\* messages-handler.ts 150: the history that is kept
TrimHistory(messages, maxHist) == Slice(messages, 0 - maxHist)

\* messages-handler.ts 149-152: trim, session.history = newHistory, sessionStore.set
Save(r) ==
    /\ rq[r].pc = "save"
    /\ LET o == rq[r].session
           hp == [heap EXCEPT ![o].history = TrimHistory(rq[r].messages, cfg.maxHistoryMessages)]
       IN  /\ sessions' = StoreSetMap(sessions, rq[r].sid, o)
           /\ Put(r, [rq[r] EXCEPT !.ops = Append(@, <<"set", rq[r].sid>>), !.pc = "await_set"])
           /\ heap' = Collect(hp, sessions', rq')
    /\ UNCHANGED <<now, usedIds, reqCount, cfg, lib, lastOp>>

\* messages-handler.ts 154: yield done
YieldDone(r) ==
    /\ rq[r].pc = "await_set"
    /\ Put(r, Yield(rq[r], DoneEvent(rq[r].sid), "yield_done"))
    /\ UNCHANGED <<now, sessions, heap, usedIds, reqCount, cfg, lib, lastOp>>

\* messages-handler.ts 155: onMessageEnd, then the generator returns
AfterDone(r) ==
    /\ rq[r].pc = "yield_done"
    /\ IF "onMessageEnd" \in cfg.throwing
       THEN /\ Put(r, [Env(rq[r], "onMessageEnd throws") EXCEPT !.pc = "catch", !.err = "hook_error"])
            /\ heap' = heap
       ELSE /\ Put(r, End(rq[r], "finished"))
            /\ heap' = Collect(heap, sessions, rq')
    /\ UNCHANGED <<now, sessions, usedIds, reqCount, cfg, lib, lastOp>>

CatchThenDone(r) ==
    /\ rq[r].pc = "catch"
    /\ Put(r, Yield(rq[r], ErrorEvent(rq[r].err, "API_ERROR"), "await_set"))
    /\ UNCHANGED <<now, sessions, heap, usedIds, reqCount, cfg, lib, lastOp>>

\* messages-handler.ts 156-160: onError, yield error
Catch(r) ==
    /\ rq[r].pc = "catch"
    /\ IF "onError" \in cfg.throwing
       THEN Put(r, End(Env(rq[r], "onError throws"), "thrown"))
       ELSE Put(r, Yield(rq[r], ErrorEvent(rq[r].err, "API_ERROR"), "yield_error"))
    /\ heap' = Collect(heap, sessions, rq')
    /\ UNCHANGED <<now, sessions, usedIds, reqCount, cfg, lib, lastOp>>

\* the next() after the last yield: the generator returns
Return(r) ==
    /\ rq[r].pc \in {"yield_invalid", "yield_error"}
    /\ Put(r, End(rq[r], "finished"))
    /\ heap' = Collect(heap, sessions, rq')
    /\ UNCHANGED <<now, sessions, usedIds, reqCount, cfg, lib, lastOp>>

\* the consumer stops reading: generator.return() at the yield the call is suspended at
Cancel(r) ==
    /\ rq[r].pc \in YieldPcs
    /\ Put(r, End(Env(rq[r], "consumer returns"), "returned"))
    /\ heap' = Collect(heap, sessions, rq')
    /\ UNCHANGED <<now, sessions, usedIds, reqCount, cfg, lib, lastOp>>

\* the clock advances
Tick(maxTime) ==
    /\ now < maxTime
    /\ now' = now + 1
    /\ UNCHANGED <<sessions, heap, usedIds, reqCount, cfg, lib, rq, lastOp>>

(***************************************************************************)
(* createProjectChatServer: the tools and callTool                         *)
(***************************************************************************)
\* server.ts 387-488: the names of the built-in tools, in the order of buildTools
BuiltinNames == <<"search_docs", "search_code", "read_file", "list_files", "get_project_summary">>

\* names callTool is called with: the built-in ones, a custom one, one nobody registered
CalledNames == {BuiltinNames[i] : i \in 1..Len(BuiltinNames)} \cup {"custom_tool", "nonexistent"}

\* config.tools: no custom tool, one custom tool, a custom tool named like a built-in one
CustomToolLists == {<<>>, <<"custom_tool">>, <<"read_file">>}

\* server.ts 522: allTools = [...builtinTools, ...customTools]
AllTools(custom) ==
    [i \in 1..Len(BuiltinNames) |-> [name |-> BuiltinNames[i], builtin |-> TRUE]]
    \o [i \in 1..Len(custom) |-> [name |-> custom[i], builtin |-> FALSE]]

\* Array.prototype.find: the index of the first element with the name (0: undefined)
FindTool(tools, name) ==
    LET hits == {i \in 1..Len(tools) : tools[i].name = name}
    IN  IF hits = {} THEN 0 ELSE CHOOSE i \in hits : \A j \in hits : i <= j

\* the files doIndex leaves in the index: docs first, then code; path and content
\* are identified by numbers (path i, content -i)
IndexOf(n, nDocs) ==
    [i \in 1..n |-> [path |-> i, type |-> IF i <= nDocs THEN "doc" ELSE "code", content |-> 0 - i]]

\* a text of a result: the literal head of its template and the values spliced into it
Text(head, tool, path, msg, listed, body) ==
    [head |-> head, tool |-> tool, path |-> path, msg |-> msg, listed |-> listed, body |-> body]
PlainText(head) == Text(head, "", 0, 0, <<>>, 0)

\* String.prototype.length = 0
EmptyText(t) == t.head = "" /\ t.tool = "" /\ t.path = 0 /\ t.msg = 0 /\ t.listed = <<>> /\ t.body = 0

\* server.ts 382-384
textResult(text) == [content |-> <<[type |-> "text", text |-> text]>>, isError |-> FALSE]

\* server.ts 541 and 547: the error results callTool builds
UnknownToolResult(toolName) ==
    [content |-> <<[type |-> "text", text |-> Text("Unknown tool: ", toolName, 0, 0, <<>>, 0)]>>,
     isError |-> TRUE]
ToolErrorResult(msg) ==
    [content |-> <<[type |-> "text", text |-> Text("Tool error: ", "", 0, msg, <<>>, 0)]>>,
     isError |-> TRUE]

\* a handler's outcome: it returns a result or throws an exception with a message
Returned(result) == [how |-> "returned", result |-> result, msg |-> 0]
Threw(msg) == [how |-> "threw", result |-> textResult(PlainText("")), msg |-> msg]

\* Array.prototype.find on the indexed files (0: undefined)
FindFile(fs, filePath) ==
    LET hits == {i \in 1..Len(fs) : fs[i].path = filePath}
    IN  IF hits = {} THEN 0 ELSE CHOOSE i \in hits : \A j \in hits : i <= j

\* server.ts 436-443: the handler of read_file
ReadFile(fs, filePath) ==
    LET i == FindFile(fs, filePath)
        first == SubSeq(fs, 1, IF Len(fs) < ListLimit THEN Len(fs) ELSE ListLimit)
    IN  IF i = 0
        THEN textResult(Text("File not found: ", "", filePath, 0,
                             [k \in 1..Len(first) |-> first[k].path], 0))
        ELSE textResult(Text("# ", "", fs[i].path, 0, <<>>, fs[i].content))

\* server.ts 396-406 and 416-426: search_docs and search_code; with files of the type
\* indexed, a missing query makes searchIndex throw (query.toLowerCase())
SearchTool(fs, type, hasQuery) ==
    IF \A i \in 1..Len(fs) : fs[i].type # type
    THEN Returned(textResult(PlainText("No files indexed.")))
    ELSE IF ~hasQuery THEN Threw(1)
    ELSE Returned(textResult(PlainText("matches")))

\* what a custom tool's handler may do
CustomOutcomes ==
    {Returned([content |-> c, isError |-> e]) :
        c \in {<<>>, <<[type |-> "text", text |-> PlainText("custom result")]>>}, e \in BOOLEAN}
    \cup {Threw(m) : m \in 0..NumMessages}

\* the outcomes of the handler of tool t for the arguments
HandlerOutcomes(t, fs, filePath, hasQuery) ==
    IF ~t.builtin THEN CustomOutcomes
    ELSE IF t.name = "read_file" THEN {Returned(ReadFile(fs, filePath))}
    ELSE IF t.name = "search_docs" THEN {SearchTool(fs, "doc", hasQuery)}
    ELSE IF t.name = "search_code" THEN {SearchTool(fs, "code", hasQuery)}
    ELSE {Returned(textResult(PlainText("listing")))}

CaughtRethrown(outcome) ==
    IF outcome.how = "returned" THEN [threw |-> FALSE, result |-> outcome.result]
    ELSE [threw |-> TRUE, result |-> outcome.result]

\* server.ts 543-548: try { return await tool.handler(args) } catch { return error result }
Caught(outcome) ==
    IF outcome.how = "returned" THEN [threw |-> FALSE, result |-> outcome.result]
    ELSE [threw |-> FALSE, result |-> ToolErrorResult(outcome.msg)]

NoCall == [tool |-> "", path |-> 0, found |-> FALSE, handler |-> Returned(textResult(PlainText(""))),
           threw |-> FALSE, result |-> textResult(PlainText(""))]

\* server.ts 538-549: callTool(toolName, args)
CallTool(toolName, filePath, hasQuery) ==
    /\ LET tools == AllTools(customTools)
           i == FindTool(tools, toolName)
       IN  IF i = 0
           THEN call' = [NoCall EXCEPT !.tool = toolName, !.path = filePath,
                                       !.result = UnknownToolResult(toolName)]
           ELSE \E outcome \in HandlerOutcomes(tools[i], files, filePath, hasQuery) :
                    call' = [tool |-> toolName, path |-> filePath, found |-> TRUE,
                             handler |-> outcome,
                             threw |-> Caught(outcome).threw, result |-> Caught(outcome).result]
    /\ UNCHANGED <<handlerVars, clientVars, namesVars, files, customTools, sseVars, indexVars>>

\* no server is under study
ServerUnused == files = <<>> /\ customTools = <<>> /\ call = NoCall

\* no index is built, searched or rebuilt
NoSearch ==
    [files |-> <<>>, query |-> <<>>, maxResults |-> 0, scores |-> <<>>, result |-> <<>>, calls |-> 0,
     given |-> FALSE, threw |-> FALSE]
NoDisk == [exists |-> FALSE, locked |-> {}, files |-> {}]
NoJob == [pc |-> "idle", pre |-> <<>>, post |-> <<>>, snap |-> NoDisk, runs |-> 0]
NoAsk == [tool |-> "", from |-> <<>>, pending |-> FALSE, overlapped |-> FALSE]
IndexUnused ==
    /\ search = NoSearch /\ disk = NoDisk /\ kind = "none"
    /\ captured = <<>> /\ job = NoJob /\ asked = NoAsk

\* no browser client is under study: the hook as it is when the component mounts
\* (no session id: 0, no error: "none", no fetch started)
NoClient ==
    [pc |-> "idle", messages |-> <<>>, isStreaming |-> FALSE, activeTools |-> <<>>,
     error |-> "none", sessionId |-> NoId, stored |-> NoId, aborted |-> FALSE,
     assistantId |-> 0, sends |-> 0, reads |-> 0, clearedWhileStreaming |-> FALSE]
ClientUnused == ui = NoClient

(***************************************************************************)
(* Specification of the messages handler                                   *)
(***************************************************************************)
Hooks == {"onMessageStart", "onMessageEnd", "onError"}
NoOp == [op |-> "none", id |-> NoId, result |-> NoObj, expired |-> FALSE]

Unused == [r \in Slots |-> IdleReq]

HandlerInit(turns, hist, throwing) ==
    /\ now = 0
    /\ sessions = [i \in SessionIds |-> NoObj]
    /\ heap = [o \in ObjIds |-> NullData]
    /\ usedIds = {}
    /\ reqCount = 0
    /\ cfg \in [maxToolTurns : turns, maxHistoryMessages : hist,
                throwing : throwing]
    /\ rq = Unused
    /\ lastOp = NoOp

\* no tool registry is under study
NoDispatch == [name |-> <<>>, key |-> <<>>, tool |-> <<>>, serverName |-> <<>>,
               toolName |-> <<>>, found |-> FALSE]
NamesUnused == registry = {} /\ dispatched = NoDispatch

\* no event stream is under study
SSEUnused == sent = <<>> /\ chunks = <<>> /\ buffer = <<>> /\ fired = <<>> /\ readerDone = FALSE

LibUnused == NamesUnused /\ ServerUnused /\ SSEUnused /\ IndexUnused /\ ClientUnused

InitOf(turns, hist, throwing) == HandlerInit(turns, hist, throwing) /\ LibUnused

Step(r, maxRequests, maxItems) ==
    \/ HandleMessage(r, maxRequests)
    \/ AfterGet(r)
    \/ StartTurn(r)
    \/ LoopTop(r)
    \/ StreamItem(r, maxItems)
    \/ FinalMessage(r)
    \/ AfterMessageEnd(r)
    \/ ToolStep(r)
    \/ Save(r)
    \/ YieldDone(r)
    \/ AfterDone(r)
    \/ Catch(r)
    \/ Return(r)
    \/ Cancel(r)

\* Spec: one handleMessage call, every behaviour of the model, the tools and the hooks
Init == InitOf(0..MaxTurnsCfg, {maxHistoryMessages}, SUBSET Hooks)
Next == Step(1, 1, MaxItems)
Spec == Init /\ [][Next]_vars

\* the consumer keeps calling next(): every step of a call but its start and its abandonment
Progress(r, maxItems) ==
    \/ AfterGet(r)
    \/ StartTurn(r)
    \/ LoopTop(r)
    \/ StreamItem(r, maxItems)
    \/ FinalMessage(r)
    \/ AfterMessageEnd(r)
    \/ ToolStep(r)
    \/ Save(r)
    \/ YieldDone(r)
    \/ AfterDone(r)
    \/ Catch(r)
    \/ Return(r)

\* SpecFair: one handleMessage call whose consumer keeps reading
NextFair == Step(1, 1, FairItems)
SpecFair == Init /\ [][NextFair]_vars /\ WF_vars(Progress(1, FairItems))

\* SpecSeq: handleMessage calls one after the other on one store, while time passes
InitSeq == InitOf({SeqTurns}, {SeqHistory}, {{}})
NextSeq == Tick(SeqTime) \/ Step(1, SeqRequests, SeqItems)
SpecSeq == InitSeq /\ [][NextSeq]_vars

\* SpecConc: two handleMessage calls in flight on one store
InitConc == InitOf({ConcTurns}, {ConcHistory}, {{}})
NextConc == \E r \in Slots : Step(r, ConcRequests, ConcItems)
SpecConc == InitConc /\ [][NextConc]_vars

(***************************************************************************)
(* Direct calls of the store API                                           *)
(***************************************************************************)
\* session-store.ts 34-42
GetOp(id) ==
    /\ lastOp' = [op |-> "get", id |-> id, result |-> StoreGetResult(sessions, heap, id, now),
                  expired |-> sessions[id] # NoObj /\ StoreGetResult(sessions, heap, id, now) = NoObj]
    /\ sessions' = StoreGetMap(sessions, heap, id, now)
    /\ heap' = Collect(heap, sessions', rq)
    /\ UNCHANGED <<now, usedIds, reqCount, cfg, lib, rq>>

\* session-store.ts 44-46: data is a new object whose lastActiveAt the caller chose
SetOp(id) ==
    /\ \E la \in 0..now :
         LET o == Alloc(sessions, rq)
         IN  /\ sessions' = StoreSetMap(sessions, id, o)
             /\ heap' = Collect([heap EXCEPT ![o] = [history |-> <<>>, sdkSessionId |-> NoSdk,
                                                     createdAt |-> la, lastActiveAt |-> la,
                                                     messageCount |-> 1]],
                                sessions', rq)
             /\ lastOp' = [op |-> "set", id |-> id, result |-> o, expired |-> FALSE]
    /\ UNCHANGED <<now, usedIds, reqCount, cfg, lib, rq>>

\* session-store.ts 48-50
DeleteOp(id) ==
    /\ sessions' = StoreDeleteMap(sessions, id)
    /\ heap' = Collect(heap, sessions', rq)
    /\ lastOp' = [op |-> "delete", id |-> id, result |-> NoObj, expired |-> FALSE]
    /\ UNCHANGED <<now, usedIds, reqCount, cfg, lib, rq>>

\* SpecStore: the store alone, called directly, while time passes
NextStore == Tick(StoreTime) \/ \E id \in SessionIds : GetOp(id) \/ SetOp(id) \/ DeleteOp(id)
SpecStore == InitSeq /\ [][NextStore]_vars

(***************************************************************************)
(* The agent handler (createAgentHandlerImpl.handleMessage)                *)
(***************************************************************************)
\* session ids the agent SDK reports in its init message
SdkIds == 1..NumSdkIds

\* content blocks of an assistant message of the SDK stream
TextBlock(id) == [type |-> "text", id |-> id, name |-> <<>>, text |-> 1]
EmptyTextBlock(id) == [type |-> "text", id |-> id, name |-> <<>>, text |-> 0]
ToolUseBlock(id) == [type |-> "tool_use", id |-> id, name |-> <<"R">>, text |-> 0]
ToolResultBlock(id) == [type |-> "tool_result", id |-> id, name |-> <<>>, text |-> 0]

\* message.content of the assistant messages the stream may deliver
AgentContents(k) ==
    {<<>>, <<TextBlock(<<k, 1>>)>>, <<EmptyTextBlock(<<k, 1>>)>>,
     <<TextBlock(<<k, 1>>), ToolUseBlock(<<k, 2>>)>>, <<ToolResultBlock(<<k, 1>>)>>}

\* agent-handler.ts 163-173: the events one content block yields
BlockEvents(b) ==
    (IF b.type = "text" /\ b.text # 0 THEN <<ContentDelta(b.id)>> ELSE <<>>)
    \o (IF b.type = "tool_use" THEN <<ToolUseStart(b)>> ELSE <<>>)
    \o (IF b.type = "tool_result" THEN <<Ev("tool_use_end", [id |-> b.id, tool |-> <<>>])>> ELSE <<>>)

\* agent-handler.ts 160-176: the events one assistant message yields, in order
RECURSIVE ContentEvents(_)
ContentEvents(content) ==
    IF content = <<>> THEN <<>> ELSE BlockEvents(Head(content)) \o ContentEvents(Tail(content))

AssistantEvents(n, k, content) == ContentEvents(content) \o <<MessageEnd(n, k)>>

\* positions at which the agent generator is suspended at a yield
AgentYieldPcs == {"ag_yield_invalid", "ag_yield_session", "ag_yield_block", "ag_yield_done",
                  "ag_yield_error"}

\* agent-handler.ts 87-100: the first next(): validation, then sessionStore.get
AgentHandleMessage(r, maxRequests) ==
    /\ rq[r].pc \in EndPcs \cup {"idle"}
    /\ reqCount < maxRequests
    /\ \E m \in Messages, s \in SessionIds \cup {NoId} :
         LET start == [IdleReq EXCEPT !.req = [message |-> m, sessionId |-> s],
                                      !.handler = "agent",
                                      !.n = reqCount + 1]
         IN  IF InvalidInput(m)
             THEN /\ Put(r, Yield(start, ErrorEvent("Message is required", "INVALID_INPUT"), "ag_yield_invalid"))
                  /\ UNCHANGED <<sessions, usedIds>>
             ELSE IF InputTooLong(m)
             THEN /\ Put(r, Yield(start, ErrorEvent("Message exceeds maxInputLength characters", "INPUT_TOO_LONG"), "ag_yield_invalid"))
                  /\ UNCHANGED <<sessions, usedIds>>
             ELSE \E sid \in ClientSessionIds(s) :
                  /\ Put(r, [start EXCEPT !.sid = sid,
                                          !.session = StoreGetResult(sessions, heap, sid, now),
                                          !.ops = Append(@, <<"get", sid>>),
                                          !.pc = "ag_await_get"])
                  /\ sessions' = StoreGetMap(sessions, heap, sid, now)
                  /\ usedIds' = usedIds \cup {sid}
    /\ reqCount' = reqCount + 1
    /\ heap' = Collect(heap, sessions', rq')
    /\ UNCHANGED <<now, cfg, lib, lastOp>>

\* agent-handler.ts 102-112: new session object, lastActiveAt, messageCount++, sessionStore.set
AgentAfterGet(r) ==
    /\ rq[r].pc = "ag_await_get"
    /\ LET fresh == rq[r].session = NoObj
           o == IF fresh THEN Alloc(sessions, rq) ELSE rq[r].session
           data == IF fresh
                   THEN [history |-> <<>>, sdkSessionId |-> NoSdk, createdAt |-> now,
                         lastActiveAt |-> now, messageCount |-> 0]
                   ELSE heap[o]
           hp == [heap EXCEPT ![o] = [data EXCEPT !.lastActiveAt = now, !.messageCount = @ + 1]]
       IN  /\ sessions' = StoreSetMap(sessions, rq[r].sid, o)
           /\ Put(r, [rq[r] EXCEPT !.session = o, !.ops = Append(@, <<"set", rq[r].sid>>),
                                   !.pc = "ag_await_set"])
           /\ heap' = Collect(hp, sessions', rq')
    /\ UNCHANGED <<now, usedIds, reqCount, cfg, lib, lastOp>>

\* agent-handler.ts 114-147: onMessageStart, prompt and query options (resume), yield session
AgentStart(r) ==
    /\ rq[r].pc = "ag_await_set"
    /\ IF "onMessageStart" \in cfg.throwing
       THEN Put(r, End(Env(rq[r], "onMessageStart throws"), "thrown"))
       ELSE Put(r, Yield([rq[r] EXCEPT !.ops = Append(@, <<"resume", heap[rq[r].session].sdkSessionId>>)],
                         SessionEvent(rq[r].sid), "ag_yield_session"))
    /\ heap' = Collect(heap, sessions, rq')
    /\ UNCHANGED <<now, sessions, usedIds, reqCount, cfg, lib, lastOp>>

\* a step of the agent generator that touches neither the store nor a session object
AgentPut(r, rec) ==
    /\ Put(r, rec)
    /\ sessions' = sessions
    /\ heap' = Collect(heap, sessions, rq')

\* the for-await of line 152 is about to take the next message of the SDK stream
AgentAtStream(rec) ==
    \/ rec.pc \in {"ag_yield_session", "ag_stream", "ag_yield_done"}
    \/ rec.pc = "ag_yield_block" /\ rec.pending = <<>>

\* agent-handler.ts 150-189: query(...) on the first entry, then one iteration of
\* `for await (const message of stream)` up to its first suspension
AgentStreamItem(r, maxItems) ==
    /\ AgentAtStream(rq[r])
    /\ LET k == rq[r].items + 1
           o == rq[r].session
           rec == [rq[r] EXCEPT !.items = k]
       IN  \/ /\ rq[r].items < maxItems
              /\ \/ \E id \in SdkIds :
                      /\ Put(r, [Env(rec, "init") EXCEPT !.ops = Append(@, <<"set", rq[r].sid>>),
                                                         !.pc = "ag_stream"])
                      /\ sessions' = StoreSetMap(sessions, rq[r].sid, o)
                      /\ heap' = Collect([heap EXCEPT ![o].sdkSessionId = id], sessions', rq')
                 \/ \E c \in AgentContents(k) :
                      LET evs == AssistantEvents(rq[r].n, k, c)
                      IN  AgentPut(r, Yield([Env(rec, "assistant") EXCEPT !.pending = Tail(evs)],
                                            Head(evs), "ag_yield_block"))
                 \/ AgentPut(r, [Env(rec, "other message") EXCEPT !.pc = "ag_stream"])
                 \/ AgentPut(r, Yield(Env(rec, "result"), DoneEvent(rq[r].sid), "ag_yield_done"))
           \/ IF "onMessageEnd" \in cfg.throwing
              THEN AgentPut(r, [Env(Env(rq[r], "stream ends"), "onMessageEnd throws") EXCEPT
                                   !.pc = "ag_catch", !.err = "hook_error"])
              ELSE AgentPut(r, End(Env(rq[r], "stream ends"), "finished"))
           \/ AgentPut(r, [Env(rq[r], "stream throws") EXCEPT !.pc = "ag_catch", !.err = "agent_error"])
    /\ UNCHANGED <<now, usedIds, reqCount, cfg, lib, lastOp>>

\* agent-handler.ts 163-174: the next yield of the assistant message being mapped
AgentBlock(r) ==
    /\ rq[r].pc = "ag_yield_block"
    /\ rq[r].pending # <<>>
    /\ AgentPut(r, Yield([rq[r] EXCEPT !.pending = Tail(@)], Head(rq[r].pending), "ag_yield_block"))
    /\ UNCHANGED <<now, usedIds, reqCount, cfg, lib, lastOp>>

\* agent-handler.ts 185-189: onError, yield error
AgentCatch(r) ==
    /\ rq[r].pc = "ag_catch"
    /\ IF "onError" \in cfg.throwing
       THEN AgentPut(r, End(Env(rq[r], "onError throws"), "thrown"))
       ELSE AgentPut(r, Yield(rq[r], ErrorEvent(rq[r].err, "AGENT_ERROR"), "ag_yield_error"))
    /\ UNCHANGED <<now, usedIds, reqCount, cfg, lib, lastOp>>

\* the next() after the last yield: the generator returns
AgentReturn(r) ==
    /\ rq[r].pc \in {"ag_yield_invalid", "ag_yield_error"}
    /\ AgentPut(r, End(rq[r], "finished"))
    /\ UNCHANGED <<now, usedIds, reqCount, cfg, lib, lastOp>>

\* the consumer stops reading: generator.return() at the yield the call is suspended at
AgentCancel(r) ==
    /\ rq[r].pc \in AgentYieldPcs
    /\ AgentPut(r, End(Env(rq[r], "consumer returns"), "returned"))
    /\ UNCHANGED <<now, usedIds, reqCount, cfg, lib, lastOp>>

AgentStep(r, maxRequests, maxItems) ==
    \/ AgentHandleMessage(r, maxRequests)
    \/ AgentAfterGet(r)
    \/ AgentStart(r)
    \/ AgentStreamItem(r, maxItems)
    \/ AgentBlock(r)
    \/ AgentCatch(r)
    \/ AgentReturn(r)
    \/ AgentCancel(r)

\* SpecMixed: calls of the messages handler and of the agent handler, one after the
\* other, on one shared session store
InitMixed == InitOf({MixTurns}, {MixHistory}, {{}})
NextMixed == Step(1, MixRequests, MixItems) \/ AgentStep(1, MixRequests, MixAgentItems)
SpecMixed == InitMixed /\ [][NextMixed]_vars

(***************************************************************************)
(* Tool namespacing and dispatch                                           *)
(***************************************************************************)
Chars == {"a", "_"}

\* the strings of 1..n characters
Strings(n) == UNION {[1..k -> Chars] : k \in 1..n}

\* messages-handler.ts 77-80: name: `${prefix}__${tool.name}`
Namespaced(key, tool) == key \o <<"_", "_">> \o tool

\* Object.entries(servers) with each server's toAnthropicTools()
Pairs == Strings(MaxKeyLen) \X Strings(MaxToolLen)

\* the sets of at most n pairs
RECURSIVE UpTo(_)
UpTo(n) == IF n = 0 THEN {{}} ELSE UpTo(n - 1) \cup {reg \cup {p} : reg \in UpTo(n - 1), p \in Pairs}

Registries == UpTo(MaxRegistered) \ {{}}

RegisteredKeys(reg) == {p[1] : p \in reg}

\* tool-loop.ts 96-99: the model calls the name the pair (key, tool) was given;
\* parseToolName and servers[serverName] resolve it
Dispatch(key, tool) ==
    /\ <<key, tool>> \in registry
    /\ LET name == Namespaced(key, tool)
           parsed == parseToolName(name)
       IN  dispatched' = [name |-> name, key |-> key, tool |-> tool,
                          serverName |-> parsed[1], toolName |-> parsed[2],
                          found |-> parsed[1] \in RegisteredKeys(registry)]
    /\ UNCHANGED <<handlerVars, clientVars, registry, serverVars, sseVars, indexVars>>

\* SpecNames: every small registry, every call of a registered tool
InitNames ==
    /\ HandlerInit({0}, {0}, {{}}) /\ ClientUnused
    /\ registry \in Registries
    /\ dispatched = NoDispatch
    /\ ServerUnused
    /\ SSEUnused
    /\ IndexUnused
NextNames == \E key \in Strings(MaxKeyLen), tool \in Strings(MaxToolLen) : Dispatch(key, tool)
SpecNames == InitNames /\ [][NextNames]_vars

\* SpecServer: a server over every small index, and every call of callTool
InitServer ==
    /\ HandlerInit({0}, {0}, {{}}) /\ ClientUnused
    /\ NamesUnused
    /\ SSEUnused
    /\ IndexUnused
    /\ \E n \in 0..MaxFiles : \E nDocs \in 0..n : files = IndexOf(n, nDocs)
    /\ customTools \in CustomToolLists
    /\ call = NoCall
\* the arguments a call is explored with: args.path matters to read_file only (0: no
\* path given), args.query to the search tools only
PathArgs(toolName) == IF toolName = "read_file" THEN 0..(MaxFiles + 1) ELSE {0}
QueryArgs(toolName) == IF toolName \in {"search_docs", "search_code"} THEN BOOLEAN ELSE {TRUE}

NextServer ==
    \E toolName \in CalledNames :
        \E filePath \in PathArgs(toolName), hasQuery \in QueryArgs(toolName) :
            CallTool(toolName, filePath, hasQuery)
SpecServer == InitServer /\ [][NextServer]_vars

(***************************************************************************)
(* The SSE wire format: serializeSSE, parseSSELine, parseSSEStream         *)
(* Strings are sequences of characters.                                    *)
(***************************************************************************)
EventPrefix == <<"e", "v", "e", "n", "t", ":", " ">>
DataPrefix == <<"d", "a", "t", "a", ":", " ">>

\* JSON.stringify of a string: the characters between the quotes
RECURSIVE Escape(_)
EscapeQuotesOnly(s) ==
    IF s = <<>> THEN <<>>
    ELSE (IF Head(s) = "\"" THEN <<"\\", "\"">> ELSE <<Head(s)>>) \o Escape(Tail(s))

Escape(s) ==
    IF s = <<>> THEN <<>>
    ELSE (CASE Head(s) = "\"" -> <<"\\", "\"">>
            [] Head(s) = "\\" -> <<"\\", "\\">>
            [] Head(s) = "\n" -> <<"\\", "n">>
            [] OTHER -> <<Head(s)>>) \o Escape(Tail(s))

Quote(s) == <<"\"">> \o Escape(s) \o <<"\"">>

\* JSON.stringify of an object whose members are strings: data is the sequence of
\* its <<key, value>> members
RECURSIVE Members(_)
Members(d) ==
    IF d = <<>> THEN <<>>
    ELSE Quote(d[1][1]) \o <<":">> \o Quote(d[1][2])
         \o (IF Len(d) > 1 THEN <<",">> ELSE <<>>) \o Members(Tail(d))

Stringify(d) == <<"{">> \o Members(d) \o <<"}">>

\* protocol.ts 71-73
serializeSSE(e) ==
    EventPrefix \o e.event \o <<"\n">> \o DataPrefix \o Stringify(e.data) \o <<"\n", "\n">>

\* JSON.parse of the text of an object whose members are strings (the only texts
\* JSON.stringify above writes); ok is FALSE where JSON.parse throws
ParseFail == [ok |-> FALSE, value |-> <<>>, next |-> 0]

RECURSIVE ScanString(_, _, _)
ScanString(t, i, acc) ==
    IF i > Len(t) THEN ParseFail
    ELSE IF t[i] = "\"" THEN [ok |-> TRUE, value |-> acc, next |-> i + 1]
    ELSE IF t[i] = "\\"
         THEN IF i + 1 > Len(t) THEN ParseFail
              ELSE IF t[i + 1] = "n" THEN ScanString(t, i + 2, Append(acc, "\n"))
              ELSE IF t[i + 1] \in {"\"", "\\"} THEN ScanString(t, i + 2, Append(acc, t[i + 1]))
              ELSE ParseFail
    ELSE IF t[i] = "\n" THEN ParseFail
    ELSE ScanString(t, i + 1, Append(acc, t[i]))

ParseString(t, i) == IF i <= Len(t) /\ t[i] = "\"" THEN ScanString(t, i + 1, <<>>) ELSE ParseFail

RECURSIVE ParseMembers(_, _, _)
ParseMembers(t, i, acc) ==
    LET k == ParseString(t, i)
    IN  IF ~k.ok \/ k.next > Len(t) THEN ParseFail
        ELSE IF t[k.next] # ":" THEN ParseFail
        ELSE LET v == ParseString(t, k.next + 1)
                 members == Append(acc, <<k.value, v.value>>)
             IN  IF ~v.ok \/ v.next > Len(t) THEN ParseFail
                 ELSE IF t[v.next] = "," THEN ParseMembers(t, v.next + 1, members)
                 ELSE IF t[v.next] = "}" /\ v.next = Len(t)
                      THEN [ok |-> TRUE, value |-> members, next |-> v.next + 1]
                 ELSE ParseFail

JSONParse(t) ==
    IF Len(t) < 2 \/ t[1] # "{" THEN ParseFail
    ELSE IF Len(t) = 2 /\ t[2] = "}" THEN [ok |-> TRUE, value |-> <<>>, next |-> 3]
    ELSE ParseMembers(t, 2, <<>>)

\* String.prototype.indexOf(c), 1-based, 0 when absent
IndexOfChar(s, c) ==
    LET hits == {i \in 1..Len(s) : s[i] = c}
    IN  IF hits = {} THEN 0 ELSE CHOOSE i \in hits : \A j \in hits : i <= j

\* String.prototype.split('\n')
RECURSIVE SplitLines(_)
SplitLines(s) ==
    LET idx == IndexOfChar(s, "\n")
    IN  IF idx = 0 THEN <<s>>
        ELSE <<SubSeq(s, 1, idx - 1)>> \o SplitLines(SubSeq(s, idx + 1, Len(s)))

StartsWith(s, p) == Len(s) >= Len(p) /\ SubSeq(s, 1, Len(p)) = p

\* String.prototype.trim
WhiteSpace == {" ", "\n"}
RECURSIVE TrimLeft(_)
TrimLeft(s) == IF s # <<>> /\ Head(s) \in WhiteSpace THEN TrimLeft(Tail(s)) ELSE s
RECURSIVE TrimRight(_)
TrimRight(s) == IF s # <<>> /\ Last(s) \in WhiteSpace THEN TrimRight(SubSeq(s, 1, Len(s) - 1)) ELSE s
Trim(s) == TrimRight(TrimLeft(s))

\* protocol.ts 75-81 (found is FALSE for the null result)
parseSSELine(line) ==
    LET colonIdx == IndexOfChar(line, ":")
    IN  IF colonIdx = 0 THEN [found |-> FALSE, field |-> <<>>, value |-> <<>>]
        ELSE [found |-> TRUE, field |-> Trim(SubSeq(line, 1, colonIdx - 1)),
              value |-> Trim(SubSeq(line, colonIdx + 1, Len(line)))]

\* currentEvent, currentData: null or a string
Null == [set |-> FALSE, v |-> <<>>]
Truthy(x) == x.set /\ x.v # <<>>

\* part_011 35-50: the loop over the complete lines of one read; the result is the
\* sequence of events passed to onEvent
RECURSIVE ProcessLines(_, _, _, _)
ProcessLines(lines, currentEvent, currentData, out) ==
    IF lines = <<>> THEN out
    ELSE LET line == Head(lines)
             rest == Tail(lines)
         IN  IF StartsWith(line, EventPrefix)
             THEN ProcessLines(rest, [set |-> TRUE, v |-> Trim(SubSeq(line, 8, Len(line)))],
                               currentData, out)
             ELSE IF StartsWith(line, DataPrefix)
             THEN ProcessLines(rest, currentEvent,
                               [set |-> TRUE, v |-> SubSeq(line, 7, Len(line))], out)
             ELSE IF line = <<>> /\ Truthy(currentEvent) /\ Truthy(currentData)
             THEN LET data == JSONParse(currentData.v)
                  IN  ProcessLines(rest, Null, Null,
                                   IF data.ok
                                   THEN Append(out, [event |-> currentEvent.v, data |-> data.value])
                                   ELSE out)
             ELSE ProcessLines(rest, currentEvent, currentData, out)

\* part_011 21-50: one reader.read() that delivers a chunk, and the lines it completes
Read ==
    /\ chunks # <<>>
    /\ LET lines == SplitLines(buffer \o Head(chunks))
       IN  /\ buffer' = Last(lines)
           /\ fired' = fired \o ProcessLines(SubSeq(lines, 1, Len(lines) - 1), Null, Null, <<>>)
    /\ chunks' = Tail(chunks)
    /\ UNCHANGED <<handlerVars, clientVars, namesVars, serverVars, indexVars, sent, readerDone>>

\* part_011 22-26: reader.read() reports the end of the stream
ReadDone ==
    /\ chunks = <<>>
    /\ ~readerDone
    /\ readerDone' = TRUE
    /\ UNCHANGED <<handlerVars, clientVars, namesVars, serverVars, indexVars, sent, chunks, buffer, fired>>

\* the ChatEvent variants with every small payload (protocol.ts 38-47)
PayloadChars == {"a", ":", " ", "\n", "\"", "\\"}
Payloads == {<<>>} \cup UNION {[1..k -> PayloadChars] : k \in 1..MaxTextLen}

OneField(name, key) == {[event |-> name, data |-> <<<<key, v>>>>] : v \in Payloads}
TwoFields(name, key1, key2) ==
    {[event |-> name, data |-> <<<<key1, v>>, <<key2, w>>>>] : v \in Payloads, w \in Payloads}
NoFields(name) == {[event |-> name, data |-> <<>>]}

ChatEvents ==
    OneField(<<"s", "e", "s", "s", "i", "o", "n">>, <<"s", "e", "s", "s", "i", "o", "n", "I", "d">>)
    \cup OneField(<<"c", "o", "n", "t", "e", "n", "t", "_", "d", "e", "l", "t", "a">>, <<"t", "e", "x", "t">>)
    \cup TwoFields(<<"t", "o", "o", "l", "_", "u", "s", "e", "_", "s", "t", "a", "r", "t">>, <<"i", "d">>, <<"t", "o", "o", "l">>)
    \cup TwoFields(<<"t", "o", "o", "l", "_", "u", "s", "e", "_", "e", "n", "d">>, <<"i", "d">>, <<"t", "o", "o", "l">>)
    \cup NoFields(<<"t", "h", "i", "n", "k", "i", "n", "g", "_", "s", "t", "a", "r", "t">>)
    \cup NoFields(<<"t", "h", "i", "n", "k", "i", "n", "g", "_", "e", "n", "d">>)
    \cup OneField(<<"m", "e", "s", "s", "a", "g", "e", "_", "e", "n", "d">>, <<"i", "d">>)
    \cup OneField(<<"d", "o", "n", "e">>, <<"s", "e", "s", "s", "i", "o", "n", "I", "d">>)
    \cup OneField(<<"e", "r", "r", "o", "r">>, <<"m", "e", "s", "s", "a", "g", "e">>)
    \cup TwoFields(<<"e", "r", "r", "o", "r">>, <<"m", "e", "s", "s", "a", "g", "e">>, <<"c", "o", "d", "e">>)

SSEIdle == HandlerInit({0}, {0}, {{}}) /\ ClientUnused /\ NamesUnused /\ ServerUnused /\ IndexUnused

\* SpecWire: one event of any variant and payload, serialized and read as one chunk
InitWire ==
    /\ SSEIdle
    /\ \E e \in ChatEvents : sent = <<e>> /\ chunks = <<serializeSSE(e)>>
    /\ buffer = <<>> /\ fired = <<>> /\ readerDone = FALSE
NextWire == Read \/ ReadDone
SpecWire == InitWire /\ [][NextWire]_vars

(***************************************************************************)
(* Observations used by the properties                                     *)
(***************************************************************************)
Kinds(r) == [i \in 1..Len(rq[r].events) |-> rq[r].events[i].event]
HasEvent(r, e) == \E i \in 1..Len(rq[r].events) : rq[r].events[i].event = e
CountEvent(r, e) == Cardinality({i \in 1..Len(rq[r].events) : rq[r].events[i].event = e})
Logged(r, what) == \E i \in 1..Len(rq[r].log) : rq[r].log[i] = what
CountLogged(r, what) == Cardinality({i \in 1..Len(rq[r].log) : rq[r].log[i] = what})

\* the sequence s with every run of x reduced to one x
RECURSIVE Squash(_, _)
Squash(s, x) ==
    IF Len(s) <= 1 THEN s
    ELSE IF s[1] = x /\ s[2] = x THEN Squash(Tail(s), x)
    ELSE <<s[1]>> \o Squash(Tail(s), x)

ModelThrows == {"stream throws", "finalMessage throws"}
HookThrows == {"onMessageStart throws", "onMessageEnd throws", "onError throws"}
ModelThrew(r) == \E w \in ModelThrows : Logged(r, w)
HookThrew(r) == \E w \in HookThrows : Logged(r, w)

\* the messages request r itself appended to its message list
OwnMessages(r) == SelectSeq(rq[r].messages, LAMBDA m : m.req = rq[r].n)

\* every model call of r so far completed with stop reason tool_use and a tool-call block
AlwaysRequestsTool(r) ==
    /\ rq[r].calls >= 1
    /\ CountLogged(r, "tool_use") = rq[r].calls
    /\ \A i \in 1..Len(rq[r].messages) :
         (rq[r].messages[i].req = rq[r].n /\ rq[r].messages[i].role = "assistant")
            => ToolUseBlocks(rq[r].messages[i].blocks) # <<>>

(***************************************************************************)
(* C1: a run of the tool loop makes at most maxToolTurns model calls; with *)
(* maxToolTurns = 1 and a model that asks for a tool on every turn (hooks  *)
(* returning normally) a completed call made exactly one model call, its   *)
(* stream ends with done and holds no error.                               *)
(***************************************************************************)
C1_TurnCeiling ==
    \A r \in Slots :
        /\ rq[r].calls <= cfg.maxToolTurns
        /\ (/\ cfg.maxToolTurns = 1
            /\ rq[r].pc = "finished"
            /\ AlwaysRequestsTool(r)
            /\ ~HookThrew(r))
           => /\ rq[r].calls = 1
              /\ Last(rq[r].events) = DoneEvent(rq[r].sid)
              /\ ~HasEvent(r, "error")

C1_Witness ==
    \E r \in Slots :
        /\ cfg.maxToolTurns = 1
        /\ rq[r].pc = "finished"
        /\ AlwaysRequestsTool(r)
        /\ rq[r].calls = 1
        /\ HasEvent(r, "tool_use_end")
        /\ Last(rq[r].events).event = "done"

(***************************************************************************)
(* C2: for the scripted model (text, one tool call, stop reason tool_use;  *)
(* then text, end_turn) the stream of a completed call is session,         *)
(* content_delta+, tool_use_start, message_end, tool_use_end,              *)
(* content_delta+, message_end, done: one message_end per model message.   *)
(***************************************************************************)
ToolOutcomes == {"callTool ok", "callTool isError", "unknown server"}

\* the model and tool behaviour of the script, runs of text deltas reduced to one
Scripted(r) ==
    /\ rq[r].pc = "finished"
    /\ \E t \in ToolOutcomes :
         Squash(rq[r].log, "text_delta") =
            <<"text_delta", "tool_use block", "stream ends", "tool_use", t,
              "text_delta", "stream ends", "end_turn">>

ObservedKinds(r) == Squash(Kinds(r), "content_delta")

Running(r) == rq[r].pc \notin EndPcs \cup {"idle"}

C3_Terminates == \A r \in Slots : Running(r) ~> (rq[r].pc \in EndPcs)

\* a call that ran to the turn ceiling with a model that asked for a tool on every turn
C3_Witness ==
    \E r \in Slots :
        /\ rq[r].pc = "finished"
        /\ cfg.maxToolTurns = MaxTurnsCfg
        /\ rq[r].calls = MaxTurnsCfg
        /\ AlwaysRequestsTool(r)

(***************************************************************************)
(* C4: when the model call throws, at the first turn or a later one (the   *)
(* hooks returning normally), the stream holds no done and at most one     *)
(* error; nothing is asked of the model afterwards; and once the call is   *)
(* over its stream holds exactly one error, carrying the exception         *)
(* message, as its last event.                                             *)
(***************************************************************************)
ModelFailed(r) == ModelThrew(r) /\ ~HookThrew(r)

C4_State ==
    \A r \in Slots :
        ModelFailed(r) =>
            /\ ~HasEvent(r, "done")
            /\ CountEvent(r, "error") <= 1
            /\ Last(rq[r].log) \in ModelThrows \cup {"consumer returns"}
            /\ rq[r].pc \in {"finished", "returned"} =>
                  /\ CountEvent(r, "error") = 1
                  /\ Last(rq[r].events) = ErrorEvent("model_error", "API_ERROR")

C4_Step ==
    \A r \in Slots :
        (ModelFailed(r) /\ rq'[r].n = rq[r].n) =>
            /\ rq'[r].calls = rq[r].calls
            /\ rq'[r].messages = rq[r].messages

C4_ModelError == [](C4_State) /\ [][C4_Step]_vars

\* the model call failed after a tool had been executed
C4_Witness ==
    \E r \in Slots :
        /\ rq[r].pc = "finished"
        /\ ModelFailed(r)
        /\ HasEvent(r, "tool_use_end")
        /\ rq[r].calls = 2
        /\ Last(rq[r].events).event = "error"

(***************************************************************************)
(* C5: a request whose message is empty or not a string, or longer than    *)
(* maxInputLength, yields the one error event (INVALID_INPUT or            *)
(* INPUT_TOO_LONG) and nothing else: no session event, no model call, no   *)
(* store access, and the store is left as it was; a message of exactly     *)
(* maxInputLength characters is accepted.                                  *)
(***************************************************************************)
EmptyOrNotString(m) == m.type # "string" \/ m.len = 0
LongerThanLimit(m) == m.type = "string" /\ m.len > maxInputLength
Rejected(m) == EmptyOrNotString(m) \/ LongerThanLimit(m)

C5_State ==
    \A r \in Slots :
        rq[r].pc # "idle" =>
            LET m == rq[r].req.message
            IN  /\ Rejected(m) =>
                     /\ Len(rq[r].events) = 1
                     /\ rq[r].events[1].event = "error"
                     /\ rq[r].events[1].data.code =
                            (IF EmptyOrNotString(m) THEN "INVALID_INPUT" ELSE "INPUT_TOO_LONG")
                     /\ rq[r].ops = <<>>
                     /\ rq[r].calls = 0
                     /\ rq[r].session = NoObj
                /\ (m.type = "string" /\ m.len = maxInputLength) =>
                     /\ rq[r].ops # <<>>
                     /\ \A i \in 1..Len(rq[r].events) :
                          rq[r].events[i].event = "error" => rq[r].events[i].data.code = "API_ERROR"

C5_Step ==
    \A r \in Slots :
        (rq'[r] # rq[r] /\ Rejected(rq'[r].req.message)) => (sessions' = sessions /\ heap' = heap)

C5_Validation == [](C5_State) /\ [][C5_Step]_vars

\* an over-long message is rejected while the store holds a session
C5_Witness ==
    \E r \in Slots :
        /\ rq[r].pc = "finished"
        /\ LongerThanLimit(rq[r].req.message)
        /\ Len(rq[r].events) = 1
        /\ \E id \in SessionIds : sessions[id] # NoObj

(***************************************************************************)
(* C6: a turn that fails with an upstream error stores nothing: the        *)
(* session's history stays what the request found, and the next request on *)
(* that session starts from it; a turn that succeeds is stored by a single *)
(* set, which keeps the last maxHistoryMessages messages of the            *)
(* conversation (so every message of the turn among those).                *)
(***************************************************************************)
\* the history a reader finds under id
Hist(id) == IF sessions[id] = NoObj THEN <<>> ELSE heap[sessions[id]].history

\* the history request r started from, and what it appended
Base(r) == SelectSeq(rq[r].messages, LAMBDA m : m.req # rq[r].n)

Contains(h, m) == \E j \in 1..Len(h) : h[j] = m

LastOf(s, k) == SubSeq(s, (IF Len(s) > k THEN Len(s) - k + 1 ELSE 1), Len(s))

Sets(r) == Cardinality({i \in 1..Len(rq[r].ops) : rq[r].ops[i][1] = "set"})

UpstreamFailed(r) == ModelThrew(r) /\ rq[r].pc \in {"catch", "yield_error", "finished", "returned"}
Succeeded(r) == rq[r].pc \in {"await_set", "yield_done"} \/ (rq[r].pc = "finished" /\ HasEvent(r, "done"))

C6_Failure ==
    \A r \in Slots :
        /\ Sets(r) <= 1
        /\ UpstreamFailed(r) =>
              /\ Sets(r) = 0
              /\ Hist(rq[r].sid) = Base(r)

C6_FirstCall ==
    \A r \in Slots :
        (rq[r].pc = "loop_top" /\ rq[r].calls = 0) =>
            rq[r].messages = Hist(rq[r].sid) \o <<UserMessage(rq[r].n)>>

C6_Step ==
    \A r \in Slots :
        rq'[r] # rq[r] =>
            /\ \A id \in SessionIds :
                 Hist(id)' # Hist(id) =>
                    \/ /\ rq[r].pc = "save" /\ rq'[r].pc = "await_set" /\ rq[r].sid = id
                       /\ ~ModelThrew(r)
                       /\ Hist(id)' = LastOf(rq[r].messages, cfg.maxHistoryMessages)
                    \/ /\ rq'[r].pc = "await_get" /\ rq'[r].sid = id
                       /\ sessions[id] # NoObj
                       /\ now - heap[sessions[id]].lastActiveAt > maxAgeMs
                       /\ Hist(id)' = <<>>
            /\ (rq[r].pc = "save" /\ rq'[r].pc = "await_set") =>
                 /\ Sets(r) = 0 /\ Sets(r)' = 1
                 /\ Hist(rq[r].sid)' = LastOf(rq[r].messages, cfg.maxHistoryMessages)

C6_State == C6_Failure /\ C6_FirstCall

IsSuffix(t, s) == Len(t) <= Len(s) /\ SubSeq(s, Len(s) - Len(t) + 1, Len(s)) = t

\* what the abandoned turn had reached: its user message and what followed it
Partial(r) == IF rq[r].messages = <<>> THEN <<UserMessage(rq[r].n)>> ELSE OwnMessages(r)

Abandoned(r) ==
    /\ rq[r].pc = "returned"
    /\ HasEvent(r, "session")
    /\ ~HasEvent(r, "done")
    /\ ~HasEvent(r, "error")

C7_PartialHistoryPersisted ==
    \A r \in Slots :
        (Abandoned(r) /\ Len(Partial(r)) <= cfg.maxHistoryMessages) =>
            IsSuffix(Partial(r), Hist(rq[r].sid))

(***************************************************************************)
(* C8: two concurrent handleMessage calls on one session id do not lose an *)
(* update: once both have completed, the stored history holds the messages *)
(* of both turns.                                                          *)
(***************************************************************************)
Completed(r) == HasEvent(r, "done")

C8_NoLostUpdate ==
    \A r1, r2 \in Slots :
        (/\ r1 # r2
         /\ Completed(r1) /\ Completed(r2)
         /\ rq[r1].sid = rq[r2].sid
         /\ Len(OwnMessages(r1)) + Len(OwnMessages(r2)) <= cfg.maxHistoryMessages)
        => /\ Contains(Hist(rq[r1].sid), UserMessage(rq[r1].n))
           /\ Contains(Hist(rq[r1].sid), UserMessage(rq[r2].n))

(***************************************************************************)
(* C9: a handleMessage call touches no store entry but that of its own     *)
(* session id, and a step of a call leaves alone every other call, every   *)
(* other id's entry and the session object of every call on another id.    *)
(***************************************************************************)
C9_State ==
    \A r \in Slots :
        /\ \A i \in 1..Len(rq[r].ops) : rq[r].ops[i][2] = rq[r].sid
        /\ rq[r].session # NoObj =>
              /\ \A id \in SessionIds \ {rq[r].sid} : sessions[id] # rq[r].session
              /\ \A r2 \in Slots \ {r} : rq[r2].sid # rq[r].sid => rq[r2].session # rq[r].session

C9_Step ==
    \A r \in Slots :
        rq'[r] # rq[r] =>
            /\ \A id \in SessionIds \ {rq'[r].sid} :
                 /\ sessions'[id] = sessions[id]
                 /\ Hist(id)' = Hist(id)
                 /\ sessions[id] # NoObj => heap'[sessions[id]] = heap[sessions[id]]
            /\ \A r2 \in Slots \ {r} :
                 /\ rq'[r2] = rq[r2]
                 /\ (rq[r2].session # NoObj /\ rq[r2].sid # rq'[r].sid) =>
                       heap'[rq[r2].session] = heap[rq[r2].session]

C9_Independent == [](C9_State) /\ [][C9_Step]_vars

\* two calls on different session ids have both written their turn
C9_Witness ==
    \E r1, r2 \in Slots :
        /\ rq[r1].sid # rq[r2].sid
        /\ rq[r1].pc = "yield_done" /\ rq[r2].pc = "yield_done"
        /\ Hist(rq[r1].sid) = rq[r1].messages
        /\ Hist(rq[r2].sid) = rq[r2].messages

(***************************************************************************)
(* C10: get(id) returns null exactly when id has no entry or its entry is  *)
(* older than maxAge (an entry aged exactly maxAge is returned); a get     *)
(* that returns null leaves no entry for id, only a set(id) brings one     *)
(* back, and a get changes no entry but that of id.                        *)
(***************************************************************************)
IsGet(id) == lastOp'.op = "get" /\ lastOp'.id = id /\ (lastOp' # lastOp \/ sessions' # sessions)

C10_Step ==
    \A id \in SessionIds :
        /\ IsGet(id) =>
              /\ lastOp'.result = NoObj <=>
                    (sessions[id] = NoObj \/ now - heap[sessions[id]].lastActiveAt > maxAgeMs)
              /\ lastOp'.result = NoObj => sessions'[id] = NoObj
              /\ lastOp'.result # NoObj =>
                    (lastOp'.result = sessions[id] /\ sessions' = sessions /\ heap' = heap)
              /\ \A j \in SessionIds \ {id} :
                    /\ sessions'[j] = sessions[j]
                    /\ sessions[j] # NoObj => heap'[sessions[j]] = heap[sessions[j]]
        /\ (sessions[id] = NoObj /\ sessions'[id] # NoObj) =>
              (lastOp'.op = "set" /\ lastOp'.id = id)

C10_GetExpiry == [][C10_Step]_vars

\* a get found an expired entry and removed it, beside an entry aged exactly maxAge
C10_Witness ==
    /\ lastOp.op = "get"
    /\ lastOp.expired
    /\ sessions[lastOp.id] = NoObj
    /\ \E j \in SessionIds :
          /\ sessions[j] # NoObj
          /\ now - heap[sessions[j]].lastActiveAt = maxAgeMs

(***************************************************************************)
(* C11: MemorySessionStore.set always refreshes lastActiveAt: right after  *)
(* set(id, data) the stored entry's lastActiveAt is the time of the set,   *)
(* whatever the caller passed, so a get(id) right after never reports the  *)
(* entry expired.                                                          *)
(***************************************************************************)
\* a step that is a call of set
IsSetStep == \E id \in SessionIds : SetOp(id)

C11_Step ==
    IsSetStep =>
        /\ heap'[sessions'[lastOp'.id]].lastActiveAt = now'
        /\ StoreGetResult(sessions', heap', lastOp'.id, now') # NoObj

C11_SetRefreshes == [][C11_Step]_vars

(***************************************************************************)
(* C12: while a session is neither deleted nor expired, its stored         *)
(* messageCount never decreases from one observation to the next and grows *)
(* by one per accepted request, whatever the interleaving of the requests; *)
(* every stored session has lastActiveAt >= createdAt.                     *)
(***************************************************************************)
\* the calls that passed validation with session id j (sid is assigned at line 101)
Accepted(j) == {r \in Slots : rq[r].sid = j}

\* every call made so far is still held by a slot, so Accepted counts all of them
AllCallsVisible == \A n \in 1..reqCount : \E r \in Slots : rq[r].n = n

\* no call on j is in flight
Quiet(j) == \A r \in Accepted(j) : rq[r].pc \in EndPcs

Stored(j) == heap[sessions[j]]

C12_State ==
    \A j \in SessionIds :
        sessions[j] # NoObj =>
            /\ Stored(j).lastActiveAt >= Stored(j).createdAt
            /\ (AllCallsVisible /\ Quiet(j)) => Stored(j).messageCount = Cardinality(Accepted(j))

C12_Step ==
    \A j \in SessionIds :
        (sessions[j] # NoObj /\ sessions'[j] # NoObj)
            => heap'[sessions'[j]].messageCount >= heap[sessions[j]].messageCount

C12_MessageCount == [](C12_State) /\ [][C12_Step]_vars

(***************************************************************************)
(* C13: no stored session record has both continuation mechanisms          *)
(* populated (a history and an sdkSessionId), also when the messages       *)
(* handler and the agent handler share one session store and are called    *)
(* with the same session id.                                               *)
(***************************************************************************)
BothPopulated(data) == data.history # <<>> /\ data.sdkSessionId # NoSdk

C13_OneMechanism ==
    \A j \in SessionIds : sessions[j] # NoObj => ~BothPopulated(heap[sessions[j]])

(***************************************************************************)
(* C14: after a successful turn on session id S, the next request with S   *)
(* (before expiry or delete) calls the model with the history the previous *)
(* turn stored, in the same order, followed by the new user message; a     *)
(* request with an unseen or absent session id calls the model with only   *)
(* its own user message.                                                   *)
(***************************************************************************)
\* the step in which call r builds the message list of its first model call
BuildsMessages(r) == rq[r].pc = "yield_session" /\ rq'[r].pc = "loop_top"

\* the message list of the first model call of r
FirstCallMessages(r) == rq'[r].messages

C14_Step ==
    \A r \in Slots :
        BuildsMessages(r) =>
            /\ sessions[rq[r].sid] # NoObj =>
                 FirstCallMessages(r) = Hist(rq[r].sid) \o <<UserMessage(rq[r].n)>>
            /\ (sessions[rq[r].sid] = NoObj \/ rq[r].req.sessionId = NoId) =>
                 FirstCallMessages(r) = <<UserMessage(rq[r].n)>>

\* the model is called with the list that was built
C14_Call ==
    \A r \in Slots :
        (rq[r].pc = "loop_top" /\ rq[r].calls = 0 /\ rq'[r].calls = 1)
            => rq'[r].messages = rq[r].messages

C14_History == [][C14_Step /\ C14_Call]_vars

\* a second request is about to call the model with the stored turn and its own message
C14_Witness ==
    /\ rq[1].pc = "loop_top" /\ rq[1].calls = 0 /\ rq[1].n = 2
    /\ Len(rq[1].messages) >= 3
    /\ rq[1].messages[1] = UserMessage(1)
    /\ Last(rq[1].messages) = UserMessage(2)
    /\ rq[1].messages = Hist(rq[1].sid) \o <<UserMessage(2)>>

(***************************************************************************)
(* C15: for every set of registered server keys and tool names, distinct   *)
(* (server key, tool name) pairs get distinct model-facing names key__tool,*)
(* and a call of a namespaced name is dispatched to exactly the server     *)
(* registered under that key with exactly the original tool name.          *)
(***************************************************************************)
C15_Distinct ==
    \A p \in registry, q \in registry :
        p # q => Namespaced(p[1], p[2]) # Namespaced(q[1], q[2])

C15_RoundTrip ==
    dispatched # NoDispatch =>
        /\ dispatched.found
        /\ dispatched.serverName = dispatched.key
        /\ dispatched.toolName = dispatched.tool

C15_Namespacing == C15_Distinct /\ C15_RoundTrip

(***************************************************************************)
(* C16: callTool of a server built by createProjectChatServer never        *)
(* throws: an unknown name returns an error-flagged result whose text      *)
(* names the tool, a handler that throws returns an error-flagged result   *)
(* whose text carries the exception message, and every error-flagged       *)
(* result callTool builds has a non-empty text segment (a result the       *)
(* handler returns is passed on as it is).                                 *)
(***************************************************************************)
Called == call # NoCall

HasText(result) ==
    \E i \in 1..Len(result.content) : ~EmptyText(result.content[i].text)

HandlerThrew == call.found /\ call.handler.how = "threw"
HandlerReturned == call.found /\ call.handler.how = "returned"

ToolErrors == {"callTool isError", "unknown server"}

\* the step in which call r gets the error-flagged result of its next tool call
ToolCallFails(r) ==
    /\ rq[r].pc \in {"tools", "yield_tool_end"}
    /\ rq[r].pending # <<>>
    /\ Len(rq'[r].log) = Len(rq[r].log) + 1
    /\ Last(rq'[r].log) \in ToolErrors

\* the step in which call r, not abandoned by its consumer, has run every tool call of
\* the model message
ToolCallsEnd(r) ==
    /\ rq[r].pc \in {"tools", "yield_tool_end"}
    /\ rq[r].pending = <<>>
    /\ rq[r].toolResults # <<>>
    /\ rq'[r].pc # rq[r].pc
    /\ rq'[r].pc # "returned"

\* the step of call r at the top of the loop, after tool results, under the ceiling
LoopsAgain(r) ==
    /\ rq[r].pc = "loop_top"
    /\ rq[r].calls >= 1
    /\ rq[r].turnCount < cfg.maxToolTurns
    /\ rq'[r] # rq[r]

C17_Step ==
    \A r \in Slots :
        /\ ToolCallFails(r) =>
             /\ rq'[r].events = Append(rq[r].events, ToolUseEnd(Head(rq[r].pending)))
             /\ rq'[r].toolResults =
                   Append(rq[r].toolResults,
                          [type |-> "tool_result", tool_use_id |-> Head(rq[r].pending).id,
                           is_error |-> TRUE])
             /\ rq'[r].pc = "yield_tool_end"
        /\ ToolCallsEnd(r) =>
             /\ rq'[r].messages = Append(rq[r].messages, ToolResultMessage(rq[r].n, rq[r].toolResults))
             /\ rq'[r].events = rq[r].events
             /\ rq'[r].pc = "loop_top"
        /\ LoopsAgain(r) =>
             /\ rq'[r].calls = rq[r].calls + 1
             /\ rq'[r].messages = rq[r].messages

\* an error event has another cause than a tool call: validation, the model, a hook
C17_State ==
    \A r \in Slots :
        HasEvent(r, "error") => (Rejected(rq[r].req.message) \/ ModelThrew(r) \/ HookThrew(r))

C17_ToolErrorContained == [](C17_State) /\ [][C17_Step]_vars

\* after a call on an unknown server the model was called again and no error was emitted
C17_Witness ==
    /\ Logged(1, "unknown server")
    /\ rq[1].calls = 2
    /\ rq[1].pc = "streaming"
    /\ ~HasEvent(1, "error")
    /\ Last(rq[1].messages).kind = "tool_result"
    /\ Last(rq[1].messages).blocks[1].is_error

(***************************************************************************)
(* C18: read_file(path) with a path that is not in the index returns a     *)
(* result flagged isError = true whose text lists at most 20 candidate     *)
(* paths; with a path that is in the index it returns that file's exact    *)
(* content and is not error-flagged.                                       *)
(***************************************************************************)
ReadFileCalled == Called /\ call.tool = "read_file"

InIndex(filePath) == \E i \in 1..Len(files) : files[i].path = filePath

C18_ReadFile ==
    ReadFileCalled =>
        LET text == call.result.content[1].text
        IN  /\ ~InIndex(call.path) =>
                 /\ call.result.isError
                 /\ Len(text.listed) <= ListLimit
            /\ InIndex(call.path) =>
                 /\ ~call.result.isError
                 /\ text.body = files[FindFile(files, call.path)].content

(***************************************************************************)
(* C19: for every ChatEvent variant and every payload, feeding             *)
(* serializeSSE(event) to the client stream parser fires exactly one event *)
(* whose type and data equal the original event, and parseSSELine splits   *)
(* each header line at its first colon, so colons inside the JSON payload  *)
(* are preserved.                                                          *)
(***************************************************************************)
EventLine(e) == EventPrefix \o e.event
DataLine(e) == DataPrefix \o Stringify(e.data)

C19_OneEvent == fired = (IF chunks = <<>> THEN sent ELSE <<>>)

C19_FirstColon ==
    \A i \in 1..Len(sent) :
        /\ parseSSELine(EventLine(sent[i])) =
              [found |-> TRUE, field |-> SubSeq(EventPrefix, 1, 5), value |-> sent[i].event]
        /\ parseSSELine(DataLine(sent[i])) =
              [found |-> TRUE, field |-> SubSeq(DataPrefix, 1, 4), value |-> Stringify(sent[i].data)]

C19_RoundTrip == C19_OneEvent /\ C19_FirstColon

\* an event whose payload holds a colon and a line feed was read back as it was sent
C19_Witness ==
    /\ readerDone
    /\ Len(sent) = 1
    /\ fired = sent
    /\ sent[1].data # <<>>
    /\ sent[1].data[1][2] = <<":", "\n">>

(***************************************************************************)
(* SpecChunks: a short sequence of events, serialized one after the other, *)
(* reaches the reader split into chunks at arbitrary positions             *)
(***************************************************************************)
ChunkEvents ==
    NoFields(<<"t", "h", "i", "n", "k", "i", "n", "g", "_", "s", "t", "a", "r", "t">>)
    \cup NoFields(<<"t", "h", "i", "n", "k", "i", "n", "g", "_", "e", "n", "d">>)
    \cup {[event |-> <<"d", "o", "n", "e">>,
           data |-> <<<<<<"s", "e", "s", "s", "i", "o", "n", "I", "d">>, <<"a">>>>>>]}

EventSeqs == UNION {[1..n -> ChunkEvents] : n \in 1..MaxEvents}

\* the bytes the server writes for a sequence of events (one serializeSSE per event)
RECURSIVE Stream(_)
Stream(events) ==
    IF events = <<>> THEN <<>> ELSE serializeSSE(Head(events)) \o Stream(Tail(events))

\* every way reader.read() can deliver s in at most n non-empty chunks
RECURSIVE Splits(_, _)
Splits(s, n) ==
    {<<s>>} \cup
    (IF n <= 1 THEN {}
     ELSE UNION {{<<SubSeq(s, 1, k)>> \o t : t \in Splits(SubSeq(s, k + 1, Len(s)), n - 1)} :
                 k \in 1..(Len(s) - 1)})

InitChunks ==
    /\ SSEIdle
    /\ \E events \in EventSeqs :
          /\ sent = events
          /\ chunks \in Splits(Stream(events), MaxChunks)
    /\ buffer = <<>> /\ fired = <<>> /\ readerDone = FALSE
NextChunks == Read \/ ReadDone
SpecChunks == InitChunks /\ [][NextChunks]_vars

(***************************************************************************)
(* C20: for every sequence of events and every way the serialized stream   *)
(* is split into read chunks, the stream parser fires exactly the original *)
(* events in the original order: what has fired is always a prefix of what *)
(* was sent, and when the stream ends everything sent has fired.           *)
(***************************************************************************)
IsPrefix(s, t) == Len(s) <= Len(t) /\ s = SubSeq(t, 1, Len(s))

C20_ChunkingPreservesEvents ==
    /\ IsPrefix(fired, sent)
    /\ readerDone => fired = sent

(***************************************************************************)
(* searchIndex (indexer.ts 82-105).  Strings are sequences of characters;  *)
(* a result is the sequence of the positions, in the files argument, of    *)
(* the file objects returned.                                              *)
(***************************************************************************)
\* String.prototype.toLowerCase
Lower(c) == IF c = "A" THEN "a" ELSE IF c = "B" THEN "b" ELSE c
toLowerCase(s) == [i \in 1..Len(s) |-> Lower(s[i])]

\* split(/\s+/).filter(Boolean): the maximal runs of characters that are not white space
RECURSIVE SplitTerms(_, _, _)
SplitTerms(s, cur, out) ==
    IF s = <<>> THEN (IF cur = <<>> THEN out ELSE Append(out, cur))
    ELSE IF Head(s) = " "
         THEN SplitTerms(Tail(s), <<>>, IF cur = <<>> THEN out ELSE Append(out, cur))
         ELSE SplitTerms(Tail(s), Append(cur, Head(s)), out)

\* indexer.ts 83
Terms(query) == SplitTerms(toLowerCase(query), <<>>, <<>>)

\* String.prototype.indexOf(term, from) for from >= 0: a position from 0, or -1
IndexOfFrom(text, term, from) ==
    LET hits == {i \in from..(Len(text) - Len(term)) :
                    SubSeq(text, i + 1, i + Len(term)) = term}
    IN  IF hits = {} THEN 0 - 1 ELSE CHOOSE i \in hits : \A j \in hits : i <= j

\* indexer.ts 89-92: the iterations of the while loop that starts with idx
RECURSIVE CountFrom(_, _, _)
CountFrom(text, term, idx) ==
    LET next == IndexOfFrom(text, term, idx + 1)
    IN  IF next = 0 - 1 THEN 0 ELSE 1 + CountFrom(text, term, next)

\* String.prototype.includes
Includes(text, term) == IndexOfFrom(text, term, 0) # 0 - 1

\* indexer.ts 86-97: the score of one file
RECURSIVE Score(_, _)
Score(file, terms) ==
    IF terms = <<>> THEN 0
    ELSE CountFrom(file.searchContent, Head(terms), 0 - 1)
         + (IF Includes(toLowerCase(file.path), Head(terms)) THEN PathBonus ELSE 0)
         + Score(file, Tail(terms))

\* indexer.ts 101: filter(s => s.score > 0) over the scored files, by position
RECURSIVE Positive(_, _)
Positive(scores, i) ==
    IF i > Len(scores) THEN <<>>
    ELSE (IF scores[i] > 0 THEN <<i>> ELSE <<>>) \o Positive(scores, i + 1)

\* where sort puts an element among those already sorted: after every element the
\* comparator (b.score - a.score) does not order behind it
InsertUnstable(sorted, i, scores) ==
    LET before == {k \in 1..Len(sorted) : scores[sorted[k]] > scores[i]}
        n == Cardinality(before)
    IN  SubSeq(sorted, 1, n) \o <<i>> \o SubSeq(sorted, n + 1, Len(sorted))

Insert(sorted, i, scores) ==
    LET before == {k \in 1..Len(sorted) : scores[sorted[k]] >= scores[i]}
        n == Cardinality(before)
    IN  SubSeq(sorted, 1, n) \o <<i>> \o SubSeq(sorted, n + 1, Len(sorted))

\* indexer.ts 102: Array.prototype.sort((a, b) => b.score - a.score), a stable sort
RECURSIVE SortByScore(_, _, _)
SortByScore(items, sorted, scores) ==
    IF items = <<>> THEN sorted
    ELSE SortByScore(Tail(items), Insert(sorted, Head(items), scores), scores)

SliceAll(s, end) == s

\* indexer.ts 103: Array.prototype.slice(0, end); a negative end counts from the end
SliceTo(s, end) ==
    LET n == Len(s)
        to == IF end < 0 THEN (IF n + end < 0 THEN 0 ELSE n + end)
              ELSE (IF end > n THEN n ELSE end)
    IN  SubSeq(s, 1, to)

\* indexer.ts 82-105
Scores(fs, query) == [i \in 1..Len(fs) |-> Score(fs[i], Terms(query))]
searchIndex(fs, query, maxResults) ==
    IF Terms(query) = <<>> THEN <<>>
    ELSE SliceTo(SortByScore(Positive(Scores(fs, query), 1), <<>>, Scores(fs, query)),
                 maxResults)

\* one call of searchIndex on the drawn file list and query; given: the caller passed
\* maxResults (otherwise the default of indexer.ts 82 applies).  Calls after the first
\* repeat its arguments.
SearchCall(given, maxResults) ==
    /\ search.calls < MaxCalls
    /\ search.calls > 0 => given = search.given /\ maxResults = search.maxResults
    /\ search' = [search EXCEPT !.given = given,
                                !.threw = FALSE,   \* no statement of 82-105 throws
                                !.maxResults = maxResults,
                                !.scores = Scores(search.files, search.query),
                                !.result = searchIndex(search.files, search.query, maxResults),
                                !.calls = search.calls + 1]
    /\ UNCHANGED <<handlerVars, clientVars, namesVars, serverVars, sseVars, disk, kind, captured, job, asked>>

Search(maxResults) == SearchCall(TRUE, maxResults)
SearchDefault == SearchCall(FALSE, DefaultMaxResults)

\* the inputs: contents are lowercased already (indexer.ts 73), paths and queries are not
ContentChars == {"a"}
ContentsOf(n) == UNION {[1..k -> ContentChars] : k \in 0..n}
SearchPaths == {<<"a">>, <<"B">>}
SearchFiles == {[path |-> p, searchContent |-> c] : p \in SearchPaths, c \in ContentsOf(MaxContentLen)}
QueryChars == {"a", "B", " "}
Queries == UNION {[1..k -> QueryChars] : k \in 0..MaxQueryLen}
Caps == (0 - 1)..(MaxSearchFiles + 1)

InitSearch ==
    /\ HandlerInit({0}, {0}, {{}}) /\ ClientUnused /\ NamesUnused /\ ServerUnused /\ SSEUnused
    /\ disk = NoDisk /\ kind = "none" /\ captured = <<>> /\ job = NoJob /\ asked = NoAsk
    /\ \E n \in 0..MaxSearchFiles : \E fs \in [1..n -> SearchFiles] : \E q \in Queries :
          search = [NoSearch EXCEPT !.files = fs, !.query = q]
NextSearch == (\E maxResults \in Caps : Search(maxResults)) \/ SearchDefault
SpecSearch == InitSearch /\ [][NextSearch]_vars

(***************************************************************************)
(* C21: searchIndex scores each file as the sum over the query terms of    *)
(* the number of non-overlapping occurrences of the term in the lowercased *)
(* content, plus 5 for each term that is a substring of the lowercased     *)
(* path; a file is returned only if its score is greater than 0.           *)
(***************************************************************************)
RECURSIVE NonOverlapping(_, _, _)
NonOverlapping(text, term, from) ==
    LET at == IndexOfFrom(text, term, from)
    IN  IF at = 0 - 1 THEN 0 ELSE 1 + NonOverlapping(text, term, at + Len(term))

RECURSIVE StatedScore(_, _)
StatedScore(file, terms) ==
    IF terms = <<>> THEN 0
    ELSE NonOverlapping(file.searchContent, Head(terms), 0)
         + (IF Includes(toLowerCase(file.path), Head(terms)) THEN 5 ELSE 0)
         + StatedScore(file, Tail(terms))

Searched == search.calls > 0

C21_Score ==
    Searched =>
        /\ \A i \in 1..Len(search.files) :
              search.scores[i] = StatedScore(search.files[i], Terms(search.query))
        /\ \A k \in 1..Len(search.result) : search.scores[search.result[k]] > 0

(***************************************************************************)
(* C22: searchIndex returns files in descending score order, files with    *)
(* equal score keep their relative order from the input file list, and a   *)
(* repeated call with the same file list and query returns the same        *)
(* sequence.                                                               *)
(***************************************************************************)
C22_Order ==
    Searched =>
        \A k, l \in 1..Len(search.result) :
            k < l =>
                \/ search.scores[search.result[k]] > search.scores[search.result[l]]
                \/ /\ search.scores[search.result[k]] = search.scores[search.result[l]]
                   /\ search.result[k] < search.result[l]

C22_Repeat == (Searched /\ search'.calls > search.calls) => search'.result = search.result

C22_StableOrder == [](C22_Order) /\ [][C22_Repeat]_vars

\* a second call returned two files of equal score behind a file of a higher score
\* that comes after them in the list
C22_Witness ==
    /\ search.calls = 2
    /\ Len(search.result) = 3
    /\ search.result[1] = 3
    /\ search.scores[1] = search.scores[2]

(***************************************************************************)
(* C23: for every file list, every query and every cap k >= 0,             *)
(* searchIndex(files, query, k) returns at most k files, and they are the  *)
(* k highest-scoring files of the ranking: no file left out scores higher  *)
(* than a file returned, and fewer than k files are returned only when     *)
(* fewer have a positive score.                                            *)
(***************************************************************************)
Matching == {i \in 1..Len(search.files) : search.scores[i] > 0}
ReturnedFiles == {search.result[k] : k \in 1..Len(search.result)}

C23_Cap ==
    (Searched /\ search.maxResults >= 0) =>
        /\ Len(search.result) <= search.maxResults
        /\ Cardinality(ReturnedFiles) = Len(search.result)
        /\ ReturnedFiles \subseteq Matching
        /\ Len(search.result) = IF Cardinality(Matching) < search.maxResults
                                THEN Cardinality(Matching) ELSE search.maxResults
        /\ \A i \in Matching \ ReturnedFiles : \A j \in ReturnedFiles :
              search.scores[i] <= search.scores[j]

\* a cap of 1 cut a ranking of three files down to the best one, the last of the list
C23_Witness ==
    /\ Searched /\ search.given /\ search.maxResults = 1
    /\ Cardinality(Matching) = 3
    /\ search.result = <<3>>

(***************************************************************************)
(* C24: a search called with a negative result cap is rejected with a      *)
(* validation error and returns no files.  (The claim's second half, that  *)
(* missing directories and unreadable files are never reported as errors,  *)
(* is about walkDir and indexDir.)                                         *)
(***************************************************************************)
C24_NegativeCap ==
    (Searched /\ search.maxResults < 0) =>
        /\ search.threw
        /\ search.result = <<>>

(***************************************************************************)
(* walkDir and indexDir (indexer.ts 29-80).  A disk is the tree under the  *)
(* directory indexed: whether the directory exists, the directories        *)
(* readdirSync fails on, and the files, each with the directories on its   *)
(* relative path, its extension, its size and whether it can be read.      *)
(***************************************************************************)
ExcludeDirs == {"node_modules"}
DocExtensions == {".md"}
CodeExtensions == {".ts"}

\* path.extname(relPath).toLowerCase()
LowerExt(ext) == IF ext = ".TS" THEN ".ts" ELSE IF ext = ".MD" THEN ".md" ELSE ext

\* the prefixes of a relative directory path: the directories walkDir has to list
Prefixes(dirs) == {SubSeq(dirs, 1, n) : n \in 0..Len(dirs)}

\* indexer.ts 29-45: the files walkDir returns
walkDir(d, excludeDirs) ==
    IF ~d.exists THEN {}
    ELSE {e \in d.files :
            /\ \A i \in 1..Len(e.dirs) : e.dirs[i] \notin excludeDirs
            /\ Prefixes(e.dirs) \cap d.locked = {}}

\* the order readdirSync lists the entries in: the same for the same entries
RECURSIVE Listed(_)
Listed(S) ==
    IF S = {} THEN <<>>
    ELSE LET e == CHOOSE x \in S : TRUE IN <<e>> \o Listed(S \ {e})

\* indexer.ts 69-74: the IndexedFile of a file on disk
PathOf(e) == [dirs |-> e.dirs, name |-> e.name, ext |-> e.ext]
Indexed(e, type) == [path |-> PathOf(e), type |-> type, size |-> e.size]

KeptBelowLimit(e, extensions, limit) ==
    /\ LowerExt(e.ext) \in extensions
    /\ e.readable
    /\ e.size < limit

\* indexer.ts 60-77: the checks a walked file passes to be indexed
Kept(e, extensions, limit) ==
    /\ LowerExt(e.ext) \in extensions
    /\ e.readable
    /\ ~(e.size > limit)

\* indexer.ts 47-80
indexDir(d, type, extensions, excludeDirs, limit) ==
    LET kept == {e \in walkDir(d, excludeDirs) : Kept(e, extensions, limit)}
        list == Listed(kept)
    IN  [i \in 1..Len(list) |-> Indexed(list[i], type)]

\* one index build of the code directory
IndexDirCall ==
    /\ job.runs = 0
    /\ files' = indexDir(disk, "code", CodeExtensions, ExcludeDirs, maxFileSize)
    /\ job' = [job EXCEPT !.runs = 1]
    /\ UNCHANGED <<handlerVars, clientVars, namesVars, customTools, call, sseVars, search, disk, kind,
                   captured, asked>>

\* the sets of at most n elements of S
RECURSIVE AtMost(_, _)
AtMost(S, n) ==
    IF n = 0 THEN {{}} ELSE AtMost(S, n - 1) \cup {s \cup {x} : s \in AtMost(S, n - 1), x \in S}

DirNames == {"src", "node_modules"}
DirPaths(depth) == UNION {[1..k -> DirNames] : k \in 0..depth}
FileNames == {"a", "b"}
DiskFiles(depth, exts, sizes, readables) ==
    {[dirs |-> p, name |-> n, ext |-> x, size |-> s, readable |-> r] :
        p \in DirPaths(depth), n \in FileNames, x \in exts, s \in sizes, r \in readables}

\* a path names one file
OnePerPath(fs) == \A e1, e2 \in fs : PathOf(e1) = PathOf(e2) => e1 = e2

\* SpecIndex: any small tree, indexed once
InitIndex ==
    /\ HandlerInit({0}, {0}, {{}}) /\ ClientUnused /\ NamesUnused /\ SSEUnused
    /\ files = <<>> /\ customTools = <<>> /\ call = NoCall
    /\ search = NoSearch /\ kind = "none" /\ captured = <<>> /\ job = NoJob /\ asked = NoAsk
    /\ \E exists \in BOOLEAN, locked \in {{}, {<<"src">>}} :
       \E fs \in AtMost(DiskFiles(MaxDepth, {".ts", ".TS", ".exe"},
                                  {maxFileSize, maxFileSize + 1}, BOOLEAN), MaxDiskFiles) :
          /\ OnePerPath(fs)
          /\ ~exists => fs = {} /\ locked = {}
          /\ disk = [exists |-> exists, locked |-> locked, files |-> fs]
NextIndex == IndexDirCall
SpecIndex == InitIndex /\ [][NextIndex]_vars

(***************************************************************************)
(* C25: after any index build, no indexed file has a path with a component *)
(* equal to a deny-listed directory name at any depth below the root, and  *)
(* every file outside such directories whose extension is allowed and      *)
(* whose size is <= maxFileSize is indexed (a file of size exactly         *)
(* maxFileSize is included, one byte larger is excluded).                  *)
(***************************************************************************)
Built == job.runs > 0
IndexedPaths == {files[i].path : i \in 1..Len(files)}
DenyListed(dirs) == \E i \in 1..Len(dirs) : dirs[i] \in ExcludeDirs
Eligible(e) ==
    /\ ~DenyListed(e.dirs)
    /\ LowerExt(e.ext) \in CodeExtensions
    /\ e.size <= maxFileSize
Readable(e) == disk.exists /\ e.readable /\ Prefixes(e.dirs) \cap disk.locked = {}

NoDenyListed == \A p \in IndexedPaths : ~DenyListed(p.dirs)

C25_AllEligibleIndexed ==
    Built =>
        /\ NoDenyListed
        /\ \A e \in disk.files : Eligible(e) => PathOf(e) \in IndexedPaths
        /\ \A e \in disk.files : e.size > maxFileSize => PathOf(e) \notin IndexedPaths

\* C25 as amended: ... and every file outside such directories that can be read, in
\* directories that can be listed, whose extension is allowed and whose size is
\* <= maxFileSize is indexed; no other file is.
C25_ReadableEligibleIndexed ==
    Built =>
        /\ NoDenyListed
        /\ \A e \in disk.files : (PathOf(e) \in IndexedPaths) <=> (Eligible(e) /\ Readable(e))
        /\ Len(files) = Cardinality(IndexedPaths)

\* a file of exactly maxFileSize was indexed while a file under src/node_modules was not
C25_Witness ==
    /\ Built
    /\ Len(files) = 1 /\ files[1].size = maxFileSize /\ files[1].path.dirs = <<"src">>
    /\ \E e \in disk.files :
          /\ e.dirs = <<"src", "node_modules">> /\ e.readable
          /\ e.ext = ".ts" /\ e.size = maxFileSize

(***************************************************************************)
(* The two servers and reindex(): createProjectChatServer (server.ts) and  *)
(* createProjectContextServer (part_013).  JavaScript runs one job at a    *)
(* time to completion: job.pc says where the synchronous reindex() on the  *)
(* stack is, and a tool handler starts only when nothing is on the stack.  *)
(***************************************************************************)
ServerKinds == {"chat", "context"}

\* server.ts 508-512 and part_013 156-157, 289-291: docs first, then code
DocsOf(d) == indexDir(d, "doc", DocExtensions, ExcludeDirs, maxFileSize)
CodeOf(d) == indexDir(d, "code", CodeExtensions, ExcludeDirs, maxFileSize)
DoIndex(d) == DocsOf(d) \o CodeOf(d)

\* the list the built-in tools read: the chat server's tools were built over the array
\* that files named at construction (server.ts 521, 386), the context server's tools
\* read the one array files names for ever (part_013 128)
ToolsRead == IF kind = "chat" THEN captured ELSE files

\* server.ts 536 and part_013 285
fileCount == Len(files)

\* the tools that read the file list, and the handler of one of them running: the
\* handlers have no await, so they run in one piece, from an idle stack
ListTools == {"search_docs", "search_code", "read_file", "list_files"}

QueryRunAnytime(toolName) ==
    /\ ~asked.pending
    /\ asked' = [tool |-> toolName, from |-> ToolsRead, pending |-> TRUE, overlapped |-> FALSE]
    /\ UNCHANGED <<handlerVars, clientVars, namesVars, serverVars, sseVars, search, disk, kind, captured, job>>

QueryRun(toolName) ==
    /\ job.pc = "idle"
    /\ ~asked.pending
    /\ asked' = [tool |-> toolName, from |-> ToolsRead, pending |-> TRUE, overlapped |-> FALSE]
    /\ UNCHANGED <<handlerVars, clientVars, namesVars, serverVars, sseVars, search, disk, kind, captured, job>>

\* the caller's await of the tool's promise resumes
QueryResolve ==
    /\ job.pc = "idle"
    /\ asked.pending
    /\ asked' = [asked EXCEPT !.pending = FALSE]
    /\ UNCHANGED <<handlerVars, clientVars, namesVars, serverVars, sseVars, search, disk, kind, captured, job>>

\* reindex() is called: files = [] (server.ts 509), files.length = 0 (part_013 289)
ReindexClear(maxRuns) ==
    /\ job.pc = "idle"
    /\ job.runs < maxRuns
    /\ files' = <<>>
    /\ job' = [job EXCEPT !.pc = "cleared", !.pre = ToolsRead, !.snap = disk]
    /\ asked' = [asked EXCEPT !.overlapped = asked.pending]
    /\ UNCHANGED <<handlerVars, clientVars, namesVars, customTools, call, sseVars, search, disk, kind, captured>>

\* server.ts 510, part_013 290
ReindexDocs ==
    /\ job.pc = "cleared"
    /\ files' = files \o DocsOf(disk)
    /\ job' = [job EXCEPT !.pc = "docs"]
    /\ UNCHANGED <<handlerVars, clientVars, namesVars, customTools, call, sseVars, search, disk, kind,
                   captured, asked>>

\* server.ts 511, part_013 291; reindex() returns
ReindexCode ==
    /\ job.pc = "docs"
    /\ files' = files \o CodeOf(disk)
    /\ job' = [job EXCEPT !.pc = "idle", !.runs = job.runs + 1,
                          !.post = IF kind = "chat" THEN captured ELSE files']
    /\ UNCHANGED <<handlerVars, clientVars, namesVars, customTools, call, sseVars, search, disk, kind,
                   captured, asked>>

\* a file is written or removed while the server is idle
ReindexFiles == DiskFiles(0, {".md", ".ts"}, {maxFileSize}, {TRUE})
DiskChange ==
    /\ job.pc = "idle"
    /\ \E e \in ReindexFiles :
          /\ e \in disk.files \/ Cardinality(disk.files) < MaxReindexFiles
          /\ disk' = [disk EXCEPT !.files = IF e \in disk.files THEN disk.files \ {e}
                                           ELSE disk.files \cup {e}]
    /\ UNCHANGED <<handlerVars, clientVars, namesVars, serverVars, sseVars, search, kind, captured, job, asked>>

\* SpecReindex: a server of either kind just created over a small tree
InitReindex ==
    /\ HandlerInit({0}, {0}, {{}}) /\ ClientUnused /\ NamesUnused /\ SSEUnused
    /\ customTools = <<>> /\ call = NoCall /\ search = NoSearch /\ asked = NoAsk
    /\ kind \in ServerKinds
    /\ \E fs \in AtMost(ReindexFiles, MaxReindexFiles) :
          disk = [exists |-> TRUE, locked |-> {}, files |-> fs]
    /\ files = DoIndex(disk)
    /\ captured = IF kind = "chat" THEN files ELSE <<>>
    /\ job = [pc |-> "idle", pre |-> ToolsRead, post |-> ToolsRead, snap |-> disk, runs |-> 1]
NextReindex ==
    \/ \E toolName \in ListTools : QueryRun(toolName)
    \/ QueryResolve
    \/ ReindexClear(MaxRuns)
    \/ ReindexDocs
    \/ ReindexCode
    \/ DiskChange
SpecReindex == InitReindex /\ [][NextReindex]_vars

(***************************************************************************)
(* C26: a tool query that overlaps in time with reindex() never observes a *)
(* partially built file list: the handler reads either the complete list   *)
(* the tools had before the reindex or the complete list they have after   *)
(* it, and a reindex that runs while the answer is pending does not change *)
(* what the query was answered from.                                       *)
(***************************************************************************)
HandlerRuns == ~asked.pending /\ asked'.pending

C26_Step ==
    /\ HandlerRuns => asked'.from \in {job.pre, job.post}
    /\ asked.pending => asked'.from = asked.from

C26_Snapshot == [][C26_Step]_vars

\* the context server rebuilt its list to a different one while a query was pending,
\* and the query resolved with what it read from the list before
C26_Witness ==
    /\ kind = "context"
    /\ asked.overlapped /\ ~asked.pending
    /\ job.pc = "idle"
    /\ asked.from = job.pre
    /\ job.pre # job.post

(***************************************************************************)
(* C27: after reindex() returns, the server reflects the files currently   *)
(* on disk both in fileCount and in its built-in tools: list_files,        *)
(* read_file, search_docs and search_code are answered from the same       *)
(* freshly built file list that fileCount counts.                          *)
(***************************************************************************)
ReindexReturned == job.pc = "idle" /\ job.runs >= 2

C27_ToolsFresh ==
    ReindexReturned =>
        /\ files = DoIndex(job.snap)
        /\ fileCount = Len(DoIndex(job.snap))
        /\ ToolsRead = files

(***************************************************************************)
(* C28: in every stream of a request that passes validation (the hooks     *)
(* returning normally), the first event is session, it is emitted before   *)
(* any model call output, and its sessionId equals the request's sessionId *)
(* when one was supplied (a fresh id otherwise); the done event of that    *)
(* stream carries the same sessionId.  Both handlers.                      *)
(***************************************************************************)
PassedValidation(r) == rq[r].sid # NoId
BeforeSession(r) == rq[r].pc \in {"await_get", "ag_await_get", "ag_await_set"}
ModelOutputs == {"text_delta", "tool_use block", "other event", "stream ends", "stream throws",
                 "finalMessage throws", "init", "assistant", "result", "other message"}
ModelSpoke(r) == rq[r].calls > 0 \/ \E i \in 1..Len(rq[r].log) : rq[r].log[i] \in ModelOutputs

C28_State ==
    \A r \in Slots :
        PassedValidation(r) =>
            /\ rq[r].req.sessionId # NoId => rq[r].sid = rq[r].req.sessionId
            /\ BeforeSession(r) => rq[r].events = <<>> /\ ~ModelSpoke(r)
            /\ ~BeforeSession(r) =>
                  /\ rq[r].events # <<>>
                  /\ rq[r].events[1] = SessionEvent(rq[r].sid)
            /\ CountEvent(r, "session") <= 1
            /\ \A i \in 1..Len(rq[r].events) :
                  rq[r].events[i].event = "done" => rq[r].events[i] = DoneEvent(rq[r].sid)

\* the id of a request that supplied none was never used before
C28_Step ==
    \A r \in Slots :
        (rq'[r].n # rq[r].n /\ PassedValidation(r)' /\ rq'[r].req.sessionId = NoId)
            => rq'[r].sid \notin usedIds

C28_SessionFirst == [](C28_State) /\ [][C28_Step]_vars

\* a second request, made to the agent handler with the id of the first, ended with done
C28_Witness ==
    \E r \in Slots :
        /\ rq[r].n = 2
        /\ rq[r].req.sessionId # NoId
        /\ rq[r].handler = "agent"
        /\ rq[r].events # <<>>
        /\ rq[r].events[1] = SessionEvent(rq[r].req.sessionId)
        /\ Last(rq[r].events) = DoneEvent(rq[r].req.sessionId)
        /\ HasEvent(r, "content_delta")

\* the same for a request of the messages handler that supplied no id
C28_WitnessFresh ==
    \E r \in Slots :
        /\ rq[r].handler = "messages"
        /\ rq[r].req.sessionId = NoId
        /\ rq[r].pc = "finished"
        /\ Last(rq[r].events) = DoneEvent(rq[r].sid)

(***************************************************************************)
(* C29: for every tool call the model makes, a tool_use_start event with   *)
(* that call's id and tool name is emitted before the tool's handler is    *)
(* invoked, and the tool_use_end event with the same id is emitted only    *)
(* after the handler's result is available.                                *)
(***************************************************************************)
EventsOf(r, e) == SelectSeq(rq[r].events, LAMBDA x : x.event = e)
ToolCalled(r) ==
    /\ rq'[r].n = rq[r].n
    /\ Len(rq'[r].log) = Len(rq[r].log) + 1
    /\ Last(rq'[r].log) \in ToolOutcomes

\* every tool_use_end follows the tool_use_start of its call, and there are as many
\* tool_use_end events as tool calls that have produced a result
C29_State ==
    \A r \in Slots :
        /\ \A j \in 1..Len(rq[r].events) :
              rq[r].events[j].event = "tool_use_end" =>
                  \E i \in 1..(j - 1) :
                      /\ rq[r].events[i].event = "tool_use_start"
                      /\ rq[r].events[i].data = rq[r].events[j].data
        /\ Len(EventsOf(r, "tool_use_end")) =
              Cardinality({i \in 1..Len(rq[r].log) : rq[r].log[i] \in ToolOutcomes})

\* when a tool is called, the tool_use_start of the call is in the stream and its
\* tool_use_end is not; the tool_use_end is the next event
C29_Step ==
    \A r \in Slots :
        ToolCalled(r) =>
            LET b == Head(rq[r].pending)
            IN  /\ \E i \in 1..Len(rq[r].events) : rq[r].events[i] = ToolUseStart(b)
                /\ \A i \in 1..Len(rq[r].events) : rq[r].events[i] # ToolUseEnd(b)
                /\ rq'[r].events = Append(rq[r].events, ToolUseEnd(b))

C29_StartBeforeEnd == [](C29_State) /\ [][C29_Step]_vars

\* a call whose tool was executed by its server has ended with done
C29_Witness ==
    \E r \in Slots :
        /\ rq[r].pc = "finished"
        /\ Logged(r, "callTool ok")
        /\ HasEvent(r, "tool_use_end")
        /\ Last(rq[r].events).event = "done"

(***************************************************************************)
(* C30: when a completed model turn that asks for tools contains several   *)
(* tool-call blocks, the loop executes them one at a time in the order the *)
(* model emitted them (a call starts only after the previous call's result *)
(* is available), emits tool_use_end in that same order, and appends one   *)
(* user-role message whose tool_result blocks are in that same order, each *)
(* keyed by the id of its originating call.                                *)
(***************************************************************************)
CallIds(content) ==
    LET calls == SelectSeq(content, LAMBDA b : b.type = "tool_use")
    IN  [i \in 1..Len(calls) |-> calls[i].id]
ResultIds(results) == [i \in 1..Len(results) |-> results[i].tool_use_id]
PendingIds(r) == [i \in 1..Len(rq[r].pending) |-> rq[r].pending[i].id]
EndIds(r) ==
    LET ends == EventsOf(r, "tool_use_end")
    IN  [i \in 1..Len(ends) |-> ends[i].data.id]
ExecutingTools(r) == rq[r].pc \in {"tools", "yield_tool_end"}

RECURSIVE PushedIds(_)
PushedIds(msgs) ==
    IF msgs = <<>> THEN <<>>
    ELSE (IF Head(msgs).kind = "tool_result" THEN ResultIds(Head(msgs).blocks) ELSE <<>>)
         \o PushedIds(Tail(msgs))

C30_State ==
    \A r \in Slots :
        \* the calls done and the calls to do are the model's blocks, in their order
        /\ ExecutingTools(r) =>
              /\ ResultIds(rq[r].toolResults) \o PendingIds(r) = CallIds(rq[r].content)
              /\ EndIds(r) = PushedIds(OwnMessages(r)) \o ResultIds(rq[r].toolResults)
        \* every tool_result message follows the assistant message it answers, block by block
        /\ \A i \in 1..Len(rq[r].messages) :
              (rq[r].messages[i].req = rq[r].n /\ rq[r].messages[i].kind = "tool_result") =>
                  /\ i > 1
                  /\ rq[r].messages[i].role = "user"
                  /\ rq[r].messages[i - 1].role = "assistant"
                  /\ rq[r].messages[i - 1].req = rq[r].n
                  /\ ResultIds(rq[r].messages[i].blocks) = CallIds(rq[r].messages[i - 1].blocks)
        /\ rq[r].pc = "finished" /\ HasEvent(r, "done") => EndIds(r) = PushedIds(OwnMessages(r))

\* one call per step, the first of those still to do
C30_Step ==
    \A r \in Slots :
        ToolCalled(r) =>
            /\ rq'[r].pending = Tail(rq[r].pending)
            /\ ResultIds(rq'[r].toolResults) =
                  Append(ResultIds(rq[r].toolResults), Head(rq[r].pending).id)

C30_InOrder == [](C30_State) /\ [][C30_Step]_vars

\* a turn with two tool calls was executed and answered by one message of two results
C30_Witness ==
    \E r \in Slots :
        /\ rq[r].pc = "finished"
        /\ EndIds(r) = <<<<1, 1>>, <<1, 2>>>>
        /\ \E i \in 1..Len(rq[r].messages) :
              /\ rq[r].messages[i].kind = "tool_result"
              /\ ResultIds(rq[r].messages[i].blocks) = <<<<1, 1>>, <<1, 2>>>>

(***************************************************************************)
(* The HTTP adapters (express.ts 35-44, next 30-43, hono 25-38): the       *)
(* for-await loop takes an event from handleMessage, writes it, and only   *)
(* then asks for the next one; an exception of the generator is written as *)
(* an error event.  `sent` holds what was written, in order (the text of a *)
(* written event is serializeSSE's, studied in SpecWire).                  *)
(***************************************************************************)
\* the adapter is about to call next(): it has written what it was handed
AdapterAtNext(r) == Len(sent) = Len(rq[r].events)

\* express.ts 36: the generator runs up to its next suspension or its end
AdapterNext(r, maxItems) ==
    /\ AdapterAtNext(r)
    /\ HandleMessage(r, 1) \/ Progress(r, maxItems)

\* express.ts 37: res.write(serializeSSE(event))
AdapterWrite(r) ==
    /\ Len(sent) < Len(rq[r].events)
    /\ sent' = Append(sent, rq[r].events[Len(sent) + 1])
    /\ UNCHANGED <<handlerVars, clientVars, namesVars, serverVars, indexVars, chunks, buffer, fired, readerDone>>

\* express.ts 39-41: the generator threw
AdapterCatch(r) ==
    /\ rq[r].pc = "thrown"
    /\ AdapterAtNext(r)
    /\ sent' = Append(sent, Ev("error", [message |-> "hook_error"]))
    /\ UNCHANGED <<handlerVars, clientVars, namesVars, serverVars, indexVars, chunks, buffer, fired, readerDone>>

\* SpecAdapter: one request served through an adapter
InitAdapter == InitOf(1..AdapterTurns, {maxHistoryMessages}, SUBSET Hooks)
NextAdapter == AdapterNext(1, AdapterItems) \/ AdapterWrite(1) \/ AdapterCatch(1)
SpecAdapter == InitAdapter /\ [][NextAdapter]_vars

(***************************************************************************)
(* C31: for every text fragment the model stream delivers, the loop emits  *)
(* exactly one content_delta event with that fragment's text before it     *)
(* consumes the next stream item, so the content_delta texts of a request, *)
(* in order, are the model's text output, and the adapter writes the       *)
(* events in the order the handler yields them.                            *)
(***************************************************************************)
TextsOf(content) ==
    LET texts == SelectSeq(content, LAMBDA b : b.type = "text")
    IN  [i \in 1..Len(texts) |-> texts[i].id]

RECURSIVE TextsOfMessages(_)
TextsOfMessages(msgs) ==
    IF msgs = <<>> THEN <<>>
    ELSE (IF Head(msgs).role = "assistant" THEN TextsOf(Head(msgs).blocks) ELSE <<>>)
         \o TextsOfMessages(Tail(msgs))

\* the text the model has produced for request r: the completed messages and
\* the fragments of the message still streaming (or cut off by a failure)
ModelText(r) ==
    LET done == SelectSeq(OwnMessages(r), LAMBDA m : m.role = "assistant")
    IN  TextsOfMessages(done) \o (IF Len(done) < rq[r].calls THEN TextsOf(rq[r].content) ELSE <<>>)

DeltaTexts(r) ==
    LET deltas == EventsOf(r, "content_delta")
    IN  [i \in 1..Len(deltas) |-> deltas[i].data.text]

FragmentDelivered(r) ==
    /\ rq'[r].n = rq[r].n
    /\ Len(rq'[r].log) = Len(rq[r].log) + 1
    /\ Last(rq'[r].log) = "text_delta"

C31_State ==
    \A r \in Slots :
        rq[r].n # 0 =>
        /\ DeltaTexts(r) = ModelText(r)
        /\ Len(sent) <= Len(rq[r].events) + (IF rq[r].pc = "thrown" THEN 1 ELSE 0)
        /\ \A i \in 1..Len(sent) : i <= Len(rq[r].events) => sent[i] = rq[r].events[i]

C31_Step ==
    \A r \in Slots :
        /\ FragmentDelivered(r) =>
              /\ rq'[r].events = Append(rq[r].events, ContentDelta(Last(rq'[r].content).id))
              /\ Last(rq'[r].content).type = "text"
              /\ rq'[r].pc = "yield_item"
        \* the generator is resumed only when the event it yielded has been written
        /\ rq'[r] # rq[r] => sent = rq[r].events /\ sent' = sent
        /\ Len(EventsOf(r, "content_delta")') # Len(EventsOf(r, "content_delta")) => FragmentDelivered(r)

C31_DeltasInOrder == [](C31_State) /\ [][C31_Step]_vars

\* two fragments of one model message, then a tool round and a fragment of the next
\* message, all written by the adapter in that order
C31_Witness ==
    /\ rq[1].pc = "finished"
    /\ sent = rq[1].events
    /\ DeltaTexts(1) = <<<<1, 1>>, <<2, 1>>, <<2, 2>>>>
    /\ HasEvent(1, "tool_use_end")
    /\ Last(sent).event = "done"

(***************************************************************************)
(* C32: if a completed model turn has a stop reason other than a natural   *)
(* end but contains no tool-call block, the loop makes no further model    *)
(* call, appends no tool-result message, and the request ends with done,   *)
(* not error (hooks returning normally).                                   *)
(***************************************************************************)
\* the last message of r's list is its own assistant message, without a tool-call
\* block, of a turn that did not stop naturally
ZeroToolTurn(r) ==
    /\ rq[r].n # 0
    /\ rq[r].messages # <<>>
    /\ Last(rq[r].messages).req = rq[r].n
    /\ Last(rq[r].messages).role = "assistant"
    /\ CallIds(Last(rq[r].messages).blocks) = <<>>
    /\ rq[r].stop # "none"
    /\ ~IsNaturalEnd(rq[r].stop)

C32_State ==
    \A r \in Slots :
        ZeroToolTurn(r) =>
            /\ rq[r].pc \notin {"loop_top", "streaming", "yield_item", "final"}
            /\ (rq[r].pc = "finished" /\ ~HookThrew(r)) =>
                  /\ Last(rq[r].events) = DoneEvent(rq[r].sid)
                  /\ ~HasEvent(r, "error")

C32_Step ==
    \A r \in Slots :
        (ZeroToolTurn(r) /\ rq'[r].n = rq[r].n) =>
            /\ rq'[r].calls = rq[r].calls
            /\ rq'[r].messages = rq[r].messages

C32_NoToolsIsDone == [](C32_State) /\ [][C32_Step]_vars

\* a first turn with a tool call, a second turn that stops with tool_use but holds
\* only text: the call ends with done after two model calls, under a ceiling of three
C32_Witness ==
    \E r \in Slots :
        /\ rq[r].pc = "finished"
        /\ ZeroToolTurn(r)
        /\ cfg.maxToolTurns > rq[r].calls
        /\ HasEvent(r, "content_delta")
        /\ Last(rq[r].events).event = "done"

(***************************************************************************)
(* SpecHist: handleMessage calls one after the other, for every configured *)
(* maxHistoryMessages from 0 on                                            *)
(***************************************************************************)
InitHist == InitOf({HistTurns}, 0..MaxHistCfg, {{}})
NextHist == Step(1, HistRequests, HistItems)
SpecHist == InitHist /\ [][NextHist]_vars

(***************************************************************************)
(* C33: after every successful turn of the messages handler the stored     *)
(* history holds at most maxHistoryMessages messages, for every configured *)
(* maxHistoryMessages >= 0, and they are the most recent messages of the   *)
(* conversation in their original order.                                   *)
(***************************************************************************)
\* the turn of r has just been stored
TurnStored(r) == rq[r].pc \in {"await_set", "yield_done"}

C33_HistoryBounded ==
    \A r \in Slots :
        TurnStored(r) =>
            /\ Len(Hist(rq[r].sid)) <= cfg.maxHistoryMessages
            /\ Hist(rq[r].sid) = LastOf(rq[r].messages, cfg.maxHistoryMessages)

(***************************************************************************)
(* C34: every event stream produced by handleMessage (messages handler and *)
(* agent handler, for a request that passes validation) contains exactly   *)
(* one terminal event, done or error, and that event is the last event of  *)
(* the stream, for every behaviour of the model or SDK stream.             *)
(***************************************************************************)
Terminals(r) == CountEvent(r, "done") + CountEvent(r, "error")

\* the generator of r ran to its end (it returned or threw; nobody abandoned it)
StreamOver(r) == rq[r].pc \in {"finished", "thrown"} /\ ~Rejected(rq[r].req.message)

C34_OneTerminal ==
    \A r \in Slots :
        StreamOver(r) =>
            /\ Terminals(r) = 1
            /\ rq[r].events # <<>>
            /\ Last(rq[r].events).event \in {"done", "error"}

(***************************************************************************)
(* C35: in every messages-handler stream that ends with done, each         *)
(* tool_use_start event is followed later in the stream by exactly one     *)
(* tool_use_end event with the same id, for every combination of model     *)
(* content and stop reason.                                                *)
(***************************************************************************)
EndsAfter(r, i) ==
    {j \in (i + 1)..Len(rq[r].events) :
        /\ rq[r].events[j].event = "tool_use_end"
        /\ rq[r].events[j].data.id = rq[r].events[i].data.id}

\* the call of r completed with done as its last event
EndedWithDone(r) ==
    /\ rq[r].handler = "messages"
    /\ rq[r].pc = "finished"
    /\ rq[r].events # <<>>
    /\ Last(rq[r].events).event = "done"

C35_EveryStartEnds ==
    \A r \in Slots :
        EndedWithDone(r) =>
            \A i \in 1..Len(rq[r].events) :
                rq[r].events[i].event = "tool_use_start" => Cardinality(EndsAfter(r, i)) = 1

(***************************************************************************)
(* C36: a turn of the messages handler that fails with an upstream error   *)
(* leaves the session-store entry of that session entirely unchanged: the  *)
(* entry's messageCount and lastActiveAt after the failed request equal    *)
(* their values before it, and no entry is created for a session id that   *)
(* had none.                                                               *)
(***************************************************************************)
C36_FailedTurnLeavesEntry ==
    \A r \in Slots :
        (rq[r].handler = "messages" /\ UpstreamFailed(r)) =>
            IF rq[r].found = NullData
            THEN sessions[rq[r].sid] = NoObj
            ELSE /\ sessions[rq[r].sid] # NoObj
                 /\ heap[sessions[rq[r].sid]].messageCount = rq[r].found.messageCount
                 /\ heap[sessions[rq[r].sid]].lastActiveAt = rq[r].found.lastActiveAt

(***************************************************************************)
(* C37: in every history stored by the messages handler, each tool_result  *)
(* block is preceded, in the immediately previous message, by the          *)
(* assistant message that contains the tool-call block with the same id:   *)
(* trimming to maxHistoryMessages never leaves a tool_result whose         *)
(* originating tool call was cut off.                                      *)
(***************************************************************************)
\* message i of list h answers tool calls of message i - 1
Answers(h, i) ==
    /\ i > 1
    /\ h[i - 1].role = "assistant"
    /\ h[i - 1].req = h[i].req
    /\ \A k \in 1..Len(h[i].blocks) :
          \E j \in 1..Len(CallIds(h[i - 1].blocks)) :
              CallIds(h[i - 1].blocks)[j] = h[i].blocks[k].tool_use_id

Paired(h) == \A i \in 1..Len(h) : h[i].kind = "tool_result" => Answers(h, i)

C37_ResultsPaired == \A id \in SessionIds : Paired(Hist(id))

(***************************************************************************)
(* C38: every message list the messages handler sends to the model, over   *)
(* any sequence of requests on a session, strictly alternates roles        *)
(* starting with user (user, assistant, user, ...).                        *)
(***************************************************************************)
Alternates(h) ==
    \A i \in 1..Len(h) : h[i].role = (IF i % 2 = 1 THEN "user" ELSE "assistant")

\* client.messages.stream was just called with r's list (tool-loop.ts 44-50)
ModelCalled(r) == rq[r].handler = "messages" /\ rq[r].pc = "streaming" /\ rq[r].items = 0

C38_RolesAlternate == \A r \in Slots : ModelCalled(r) => Alternates(rq[r].messages)

(***************************************************************************)
(* C39: in the messages handler done is emitted only after the turn's      *)
(* history has been written to the session store by set, and a request     *)
(* with the same session id that starts after done reads the history that  *)
(* set stored, the last maxHistoryMessages messages of the turn's list,    *)
(* unless the entry has expired by then.                                   *)
(***************************************************************************)
\* the step in which call r yields done
EmitsDone(r) ==
    /\ rq[r].handler = "messages"
    /\ rq'[r].n = rq[r].n
    /\ Len(rq'[r].events) = Len(rq[r].events) + 1
    /\ Last(rq'[r].events).event = "done"

\* the step in which the next call of the messages handler starts with the session id
\* of call r, whose stream held done
StartsAfterDone(r) ==
    /\ rq[r].handler = "messages"
    /\ HasEvent(r, "done")
    /\ rq'[r].n # rq[r].n
    /\ rq'[r].handler = "messages"
    /\ rq'[r].pc = "await_get"
    /\ rq'[r].sid = rq[r].sid

\* the messages call r itself appended to its list
TurnOf(r) == OwnMessages(r)

C39_Step ==
    \A r \in Slots :
        /\ EmitsDone(r) =>
              /\ Sets(r) = 1
              /\ Last(rq[r].ops) = <<"set", rq[r].sid>>
              /\ sessions[rq[r].sid] # NoObj
              /\ Hist(rq[r].sid) = LastOf(rq[r].messages, cfg.maxHistoryMessages)
        /\ StartsAfterDone(r) =>
              /\ sessions[rq[r].sid] # NoObj
              /\ rq'[r].found.history =
                    IF Expired(heap[sessions[rq[r].sid]], now) THEN <<>>
                    ELSE LastOf(rq[r].messages, cfg.maxHistoryMessages)

C39_SavedBeforeDone == [][C39_Step]_vars

\* the claim as it was made: a request that starts after done reads a history that
\* contains the completed turn
C39_Original ==
    [][\A r \in Slots :
          /\ EmitsDone(r) => Sets(r) = 1
          /\ StartsAfterDone(r) =>
                \A i \in 1..Len(TurnOf(r)) : Contains(rq'[r].found.history, TurnOf(r)[i])]_vars

\* a second request has read the turn the first one stored before its done
C39_Witness ==
    \E r \in Slots :
        /\ rq[r].n = 2
        /\ rq[r].handler = "messages"
        /\ rq[r].pc = "await_get"
        /\ Len(rq[r].found.history) >= 2
        /\ rq[r].found.history[1] = UserMessage(1)
        /\ Last(rq[r].found.history).role = "assistant"

(***************************************************************************)
(* The client hook useAgentChat (part_010), with useSession and the        *)
(* callbacks it hands to parseSSEStream.  One action is one task or        *)
(* microtask of the browser; the state is React's after the updates the    *)
(* task queued.  A read delivers one event (chunking is SpecChunks').      *)
(***************************************************************************)
\* the events a response stream may carry
ClientBlock == [type |-> "tool_use", id |-> <<1, 1>>, name |-> <<"d", "_", "_", "s">>]
ClientEvents ==
    {SessionEvent(1), ContentDelta(<<1, 1>>), ToolUseStart(ClientBlock), ToolUseEnd(ClientBlock),
     ErrorEvent("model_error", "API_ERROR"), DoneEvent(1)}

\* part_010 48-53, 75-81: the user message and the assistant placeholder of send k
ClientUserMessage(k) == [id |-> 2 * k - 1, role |-> "user", content |-> <<>>, toolUses |-> <<>>]
ClientAssistantMessage(k) == [id |-> 2 * k, role |-> "assistant", content |-> <<>>, toolUses |-> <<>>]

ClientRange(msgs) == {msgs[i] : i \in 1..Len(msgs)}

\* prev.map(m => m.id === assistantId ? F(m) : m)
MapMessage(msgs, id, F) == [i \in 1..Len(msgs) |-> IF msgs[i].id = id THEN F[msgs[i]] ELSE msgs[i]]

\* useSession.ts 22-31 and 33-42
updateSessionId(u, id) == [u EXCEPT !.sessionId = id, !.stored = id]
clearSession(u) == [u EXCEPT !.sessionId = NoId, !.stored = NoId]

\* part_010 106-158: the onEvent callback
OnEvent(u, e) ==
    CASE e.event = "session" -> updateSessionId(u, e.data.sessionId)
      [] e.event = "content_delta" ->
            LET AddText == [m \in ClientRange(u.messages) |-> [m EXCEPT !.content = Append(@, e.data.text)]]
            IN  [u EXCEPT !.messages = MapMessage(@, u.assistantId, AddText)]
      [] e.event = "tool_use_start" ->
            LET toolUse == [id |-> e.data.id, tool |-> e.data.tool, status |-> "running"]
                AddTool == [m \in ClientRange(u.messages) |-> [m EXCEPT !.toolUses = Append(@, toolUse)]]
            IN  [u EXCEPT !.activeTools = Append(@, toolUse),
                          !.messages = MapMessage(@, u.assistantId, AddTool)]
      [] e.event = "tool_use_end" ->
            LET Complete == [m \in ClientRange(u.messages) |->
                    [m EXCEPT !.toolUses =
                        [i \in 1..Len(@) |-> IF @[i].id = e.data.id
                                             THEN [@[i] EXCEPT !.status = "complete"] ELSE @[i]]]]
            IN  [u EXCEPT !.activeTools = SelectSeq(@, LAMBDA t : t.id # e.data.id),
                          !.messages = MapMessage(@, u.assistantId, Complete)]
      [] e.event = "error" -> [u EXCEPT !.error = e.data.message]
      [] OTHER -> u

\* part_010 159-162: the onDone callback
OnDone(u) == [u EXCEPT !.isStreaming = FALSE, !.activeTools = <<>>]

\* part_010 163-168: the onError callback
OnError(u, err) == [u EXCEPT !.isStreaming = FALSE, !.activeTools = <<>>, !.error = err]

ClientPut(u) ==
    /\ ui' = u
    /\ UNCHANGED <<handlerVars, namesVars, serverVars, sseVars, indexVars>>

\* part_010 44-92: send(text) with a non-blank text, up to `await fetch`
Send ==
    /\ ~ui.isStreaming
    /\ ui.pc \in {"idle", "ended"}
    /\ ui.sends < MaxSends
    /\ LET k == ui.sends + 1
       IN  ClientPut([ui EXCEPT !.messages = @ \o <<ClientUserMessage(k), ClientAssistantMessage(k)>>,
                                !.isStreaming = TRUE,
                                !.error = "none",
                                !.activeTools = <<>>,
                                !.assistantId = 2 * k,
                                !.aborted = FALSE,
                                !.sends = k,
                                !.reads = 0,
                                !.clearedWhileStreaming = FALSE,
                                !.pc = "fetching"])

\* part_010 87-104 and 170-176: fetch settles; an abort rejects it with an AbortError
FetchSettles ==
    /\ ui.pc = "fetching"
    /\ IF ui.aborted
       THEN ClientPut([ui EXCEPT !.pc = "ended"])
       ELSE \/ ClientPut([ui EXCEPT !.pc = "reading"])
            \/ \E err \in {"Server returned 500", "Failed to fetch"} :
                  ClientPut([ui EXCEPT !.isStreaming = FALSE, !.error = err, !.pc = "ended"])

\* part_011 22-50: reader.read() resolves with a chunk, here one event
ReadEvent ==
    /\ ui.pc = "reading"
    /\ ~ui.aborted
    /\ ui.reads < MaxReads
    /\ \E e \in ClientEvents : ClientPut(OnEvent([ui EXCEPT !.reads = @ + 1], e))

\* part_011 23-26: reader.read() resolves with done
ReadEnd ==
    /\ ui.pc = "reading"
    /\ ~ui.aborted
    /\ ClientPut(OnDone([ui EXCEPT !.pc = "ended"]))

\* part_011 52-54: reader.read() rejects: the connection broke, or the fetch was
\* aborted and the body stream was errored with an AbortError
ReadRejects ==
    /\ ui.pc = "reading"
    /\ ClientPut(OnError([ui EXCEPT !.pc = "ended"],
                         IF ui.aborted THEN "AbortError" ELSE "network error"))

\* part_010 179-186 (abortRef.current is set from the first send on)
ClearHistory ==
    /\ ui' = clearSession([ui EXCEPT !.aborted = @ \/ ui.pc # "idle",
                                     !.messages = <<>>,
                                     !.isStreaming = FALSE,
                                     !.activeTools = <<>>,
                                     !.error = "none",
                                     !.clearedWhileStreaming = ui.pc \in {"fetching", "reading"}])
    /\ UNCHANGED <<handlerVars, namesVars, serverVars, sseVars, indexVars>>

\* SpecClient: one mounted hook, with or without a session id in localStorage
InitClient ==
    /\ HandlerInit({0}, {0}, {{}}) /\ NamesUnused /\ ServerUnused /\ SSEUnused /\ IndexUnused
    /\ \E s \in {NoId, 1} : ui = updateSessionId(NoClient, s)
NextClient == Send \/ FetchSettles \/ ReadEvent \/ ReadEnd \/ ReadRejects \/ ClearHistory
SpecClient == InitClient /\ [][NextClient]_vars

(***************************************************************************)
(* C40: after clearHistory() is called while a response is streaming, the  *)
(* state stays cleared until the next send: no callback of the aborted     *)
(* stream afterwards changes messages, activeTools, error or the stored    *)
(* session id.                                                             *)
(***************************************************************************)
Cleared ==
    /\ ui.messages = <<>>
    /\ ui.activeTools = <<>>
    /\ ui.error = "none"
    /\ ui.sessionId = NoId
    /\ ui.stored = NoId

C40_StaysCleared == ui.clearedWhileStreaming => Cleared

====
